---------------------------- MODULE Spec2Model ----------------------------
(***************************************************************************)
(* A model of the rich-document conversion code of atlassian-cli:          *)
(*   ADFToText   (ADF JSON tree -> plain text)                             *)
(*   HTMLToText  (Confluence storage HTML -> plain text)                   *)
(* and of the code around them: concurrent calls, the create-issue and     *)
(* edit-issue commands, NewClient, Config.GetActiveAccount, auth login and *)
(* auth logout.                                                            *)
(*                                                                         *)
(* Strings are sequences of one-character strings.  A character outside    *)
(* ASCII is written by its code point, e.g. "U+2022" for the bullet; so   *)
(* is the backtick, "U+0060".                                              *)
(* A JSON-decoded value (Go's interface{}) is a record [k, v]:             *)
(*   k = "null"                      nil                                   *)
(*   k = "bool", v \in BOOLEAN       bool                                  *)
(*   k = "num",  v \in Int           float64, counted in halves (v/2)      *)
(*   k = "str",  v a string          string                                *)
(*   k = "arr",  v a sequence        []interface{}                         *)
(*   k = "obj",  v a function        map[string]interface{}                *)
(***************************************************************************)
EXTENDS Integers, Sequences, FiniteSets, TLC

VARIABLES
    pc,       \* "ready": the caller holds an input; "done": the call returned
    adf,      \* the JSON value handed to ADFToText
    result,   \* what ADFToText did: [panicked |-> BOOLEAN, value |-> string]
    html,     \* the string handed to HTMLToText
    rendered, \* the string HTMLToText returned
    threads,  \* the goroutines that call the converters at the same time
    jira,     \* a create-issue or edit-issue command and the requests it sent
    account,  \* a Config handed to GetActiveAccount and what the call returned
    auth,     \* the config file and the last auth login / auth logout command
    client    \* the arguments of NewClient and the Client it returned

vars == <<pc, adf, result, html, rendered, threads, jira, account, auth, client>>

\* the variables a specification of one part leaves alone
convVars == <<pc, adf, result, html, rendered>>
Unused(unused) == unused = <<>>

---------------------------------------------------------------------------
(* Bounds of the model *)

MaxLevelTried == 7      \* heading levels tried run from -1 to this
MaxMarks == 2           \* marks on one text node
MaxItems == 3           \* entries of one list's content array
MaxCells == 2           \* cells of one table row
MaxRows == 2            \* rows of one table
MaxPlainLen == 5        \* characters of an HTML input without markup
MaxFrags == 2           \* pieces of an HTML input with markup

---------------------------------------------------------------------------
(* JSON values *)

Null == [k |-> "null"]
Bool(b) == [k |-> "bool", v |-> b]
Num(halves) == [k |-> "num", v |-> halves]
Str(s) == [k |-> "str", v |-> s]
Arr(a) == [k |-> "arr", v |-> a]
Obj(m) == [k |-> "obj", v |-> m]

\* map[string]interface{} index: a missing key (and any key of a nil map) is nil
Get(m, key) == IF key \in DOMAIN m THEN m[key] ELSE Null

\* x, _ := v.(string)
AsString(x) == IF x.k = "str" THEN x.v ELSE <<>>
\* x, _ := v.([]interface{})
AsArray(x) == IF x.k = "arr" THEN x.v ELSE <<>>
\* x, ok := v.(map[string]interface{}): ok
IsMap(x) == x.k = "obj"
\* x, _ := v.(map[string]interface{}): the nil map when the assertion fails
AsMap(x) == IF x.k = "obj" THEN x.v ELSE <<>>
\* x, _ := v.(float64), in halves
AsFloat(x) == IF x.k = "num" THEN x.v ELSE 0
\* int(f) of a float64 counted in halves: truncation toward zero
IntOfFloat(halves) == IF halves >= 0 THEN halves \div 2 ELSE -((-halves) \div 2)

---------------------------------------------------------------------------
(* Strings *)

\* unicode.IsSpace, on the characters of the model
WhiteSpace == {" ", "\n", "\t", "\r", "\f", "U+00A0"}

RECURSIVE TrimLeft(_)
TrimLeft(s) ==
    IF s # <<>> /\ Head(s) \in WhiteSpace THEN TrimLeft(Tail(s)) ELSE s

RECURSIVE TrimRight(_)
TrimRight(s) ==
    IF s # <<>> /\ s[Len(s)] \in WhiteSpace
    THEN TrimRight(SubSeq(s, 1, Len(s) - 1)) ELSE s

\* strings.TrimSpace
TrimSpace(s) == TrimRight(TrimLeft(s))

\* strings.Repeat(s, count) for count >= 0 (a negative count panics, see heading)
RECURSIVE Repeat(_, _)
Repeat(s, count) == IF count <= 0 THEN <<>> ELSE s \o Repeat(s, count - 1)

Digit(d) == <<"0", "1", "2", "3", "4", "5", "6", "7", "8", "9">>[d + 1]

\* fmt.Sprintf("%d", n) for n >= 0
RECURSIVE Itoa(_)
Itoa(n) == IF n < 10 THEN <<Digit(n)>> ELSE Itoa(n \div 10) \o <<Digit(n % 10)>>

\* strings.ToUpper, on the letters of the model
UpperOf(c) ==
    CASE c = "a" -> "A" [] c = "b" -> "B" [] c = "i" -> "I" [] c = "n" -> "N"
      [] c = "f" -> "F" [] c = "o" -> "O" [] c = "t" -> "T" [] c = "e" -> "E"
      [] OTHER -> c
ToUpper(s) == [i \in 1..Len(s) |-> UpperOf(s[i])]

\* strings.Contains(s, sub)
Contains(s, sub) ==
    \E i \in 0..(Len(s) - Len(sub)) : SubSeq(s, i + 1, i + Len(sub)) = sub

---------------------------------------------------------------------------
(* The node and mark type names the renderer switches on *)

T_doc == <<"d", "o", "c">>
T_paragraph == <<"p", "a", "r", "a", "g", "r", "a", "p", "h">>
T_heading == <<"h", "e", "a", "d", "i", "n", "g">>
T_text == <<"t", "e", "x", "t">>
T_bulletList == <<"b", "u", "l", "l", "e", "t", "L", "i", "s", "t">>
T_orderedList == <<"o", "r", "d", "e", "r", "e", "d", "L", "i", "s", "t">>
T_listItem == <<"l", "i", "s", "t", "I", "t", "e", "m">>
T_codeBlock == <<"c", "o", "d", "e", "B", "l", "o", "c", "k">>
T_blockquote == <<"b", "l", "o", "c", "k", "q", "u", "o", "t", "e">>
T_hardBreak == <<"h", "a", "r", "d", "B", "r", "e", "a", "k">>
T_rule == <<"r", "u", "l", "e">>
T_mention == <<"m", "e", "n", "t", "i", "o", "n">>
T_emoji == <<"e", "m", "o", "j", "i">>
T_inlineCard == <<"i", "n", "l", "i", "n", "e", "C", "a", "r", "d">>
T_blockCard == <<"b", "l", "o", "c", "k", "C", "a", "r", "d">>
T_panel == <<"p", "a", "n", "e", "l">>
T_table == <<"t", "a", "b", "l", "e">>
T_tableRow == <<"t", "a", "b", "l", "e", "R", "o", "w">>
T_tableHeader == <<"t", "a", "b", "l", "e", "H", "e", "a", "d", "e", "r">>
T_tableCell == <<"t", "a", "b", "l", "e", "C", "e", "l", "l">>
T_strong == <<"s", "t", "r", "o", "n", "g">>
T_em == <<"e", "m">>
T_code == <<"c", "o", "d", "e">>
T_strike == <<"s", "t", "r", "i", "k", "e">>

---------------------------------------------------------------------------
(* ADFToText: src/cmd/auth.go lines 186-414 (package atlassian) *)

\* A strings.Builder together with "the goroutine has panicked"
NewBuilder == [buf |-> <<>>, panicked |-> FALSE]
\* sb.WriteString(s)
WriteString(sb, s) == IF sb.panicked THEN sb ELSE [sb EXCEPT !.buf = @ \o s]
Panic(sb) == [sb EXCEPT !.panicked = TRUE]

\* writeIndent: sb.WriteString(strings.Repeat(" ", indent))
writeIndent(sb, indent) == WriteString(sb, Repeat(<<" ">>, indent))

\* a version that is off by one
headingLevelOffByOne(node) ==
    IntOfFloat(AsFloat(Get(AsMap(Get(node, "attrs")), "level"))) - 1

\* level, _ := node["attrs"].(map[string]interface{})["level"].(float64)
\* The map assertion has no ", ok": it panics when attrs is not an object.
headingAttrsPanics(node) == ~IsMap(Get(node, "attrs"))
headingLevel(node) == IntOfFloat(AsFloat(Get(AsMap(Get(node, "attrs")), "level")))

\* one turn of the switch on markType
applyMark(markType, formatted) ==
    CASE markType = T_strong -> <<"*", "*">> \o formatted \o <<"*", "*">>
      [] markType = T_em     -> <<"*">> \o formatted \o <<"*">>
      [] markType = T_code   -> <<"U+0060">> \o formatted \o <<"U+0060">>
      [] markType = T_strike -> <<"~", "~">> \o formatted \o <<"~", "~">>
      [] OTHER -> formatted

\* a version that ranges over the marks from the last to the first
RECURSIVE applyMarksReversed(_, _, _)
applyMarksReversed(marks, i, formatted) ==
    IF i > Len(marks) THEN formatted
    ELSE LET m == marks[Len(marks) + 1 - i]
         IN  applyMarksReversed(marks, i + 1,
                IF IsMap(m) THEN applyMark(AsString(Get(m.v, "type")), formatted)
                ELSE formatted)

\* for _, mark := range marks { ... }, from index i on
RECURSIVE applyMarks(_, _, _)
applyMarks(marks, i, formatted) ==
    IF i > Len(marks) THEN formatted
    ELSE applyMarks(marks, i + 1,
            IF IsMap(marks[i])
            THEN applyMark(AsString(Get(marks[i].v, "type")), formatted)
            ELSE formatted)

\* the marker literal of the bulletList case: the three characters
\* U+00E2 U+20AC U+00A2 (bytes c3 a2 e2 82 ac c2 a2 in the source file)
bulletMarker == <<"U+00E2", "U+20AC", "U+00A2">>

\* marker := fmt.Sprintf("%d.", i+1), i the 0-based index in the content array
orderedMarker(i) == Itoa(i + 1) \o <<".">>

RECURSIVE processNode(_, _, _)
RECURSIVE processListItem(_, _, _, _)

\* for _, child := range content { if childMap, ok := ...; ok { processNode(childMap, sb, indent) } }
RECURSIVE forEachChild(_, _, _, _)
forEachChild(content, i, sb, indent) ==
    IF i > Len(content) \/ sb.panicked THEN sb
    ELSE forEachChild(content, i + 1,
            IF IsMap(content[i]) THEN processNode(content[i].v, sb, indent) ELSE sb,
            indent)

RECURSIVE bulletListLoop(_, _, _, _)
bulletListLoop(content, i, sb, indent) ==
    IF i > Len(content) \/ sb.panicked THEN sb
    ELSE bulletListLoop(content, i + 1,
            IF IsMap(content[i])
            THEN processListItem(content[i].v, sb, indent, bulletMarker)
            ELSE sb,
            indent)

\* i is the 1-based position in content; the loop index of the code is i - 1
RECURSIVE orderedListLoop(_, _, _, _)
orderedListLoop(content, i, sb, indent) ==
    IF i > Len(content) \/ sb.panicked THEN sb
    ELSE orderedListLoop(content, i + 1,
            IF IsMap(content[i])
            THEN processListItem(content[i].v, sb, indent, orderedMarker(i - 1))
            ELSE sb,
            indent)

RECURSIVE blockquoteLoop(_, _, _, _)
blockquoteLoop(content, i, sb, indent) ==
    IF i > Len(content) \/ sb.panicked THEN sb
    ELSE blockquoteLoop(content, i + 1,
            IF IsMap(content[i])
            THEN processNode(content[i].v,
                    WriteString(writeIndent(sb, indent), <<">", " ">>), indent)
            ELSE sb,
            indent)

\* a version that writes the separator between cells only, not after each
RECURSIVE tableRowLoopBetween(_, _, _, _)
tableRowLoopBetween(content, i, sb, indent) ==
    IF i > Len(content) \/ sb.panicked THEN sb
    ELSE tableRowLoopBetween(content, i + 1,
            IF IsMap(content[i])
            THEN processNode(content[i].v,
                    IF i > 1 THEN WriteString(sb, <<" ", "|", " ">>) ELSE sb, indent)
            ELSE sb,
            indent)

RECURSIVE tableRowLoop(_, _, _, _)
tableRowLoop(content, i, sb, indent) ==
    IF i > Len(content) \/ sb.panicked THEN sb
    ELSE tableRowLoop(content, i + 1,
            IF IsMap(content[i])
            THEN WriteString(processNode(content[i].v, sb, indent), <<" ", "|", " ">>)
            ELSE sb,
            indent)

\* a version that drops the children of a node of unknown kind
processUnknownDropped(content, sb, indent) == sb

\* the default case: for unknown nodes, process children if they exist
processUnknown(content, sb, indent) == forEachChild(content, 1, sb, indent)

\* the heading case
processHeading(node, content, sb, indent) ==
    IF headingAttrsPanics(node) THEN Panic(sb)
    ELSE LET level == headingLevel(node)
             sb1 == writeIndent(WriteString(sb, <<"\n">>), indent)
         IN  IF level < 0 THEN Panic(sb1)   \* strings.Repeat: negative Repeat count
             ELSE WriteString(
                    forEachChild(content, 1,
                        WriteString(WriteString(sb1, Repeat(<<"#">>, level)), <<" ">>),
                        indent),
                    <<"\n">>)

processNode(node, sb, indent) ==
    IF sb.panicked THEN sb ELSE
    LET nodeType == AsString(Get(node, "type"))
        content == AsArray(Get(node, "content"))
    IN
    CASE nodeType = T_doc -> forEachChild(content, 1, sb, indent)
      [] nodeType = T_paragraph ->
            WriteString(forEachChild(content, 1, writeIndent(sb, indent), indent), <<"\n">>)
      [] nodeType = T_heading -> processHeading(node, content, sb, indent)
      [] nodeType = T_text ->
            WriteString(sb, applyMarks(AsArray(Get(node, "marks")), 1,
                                       AsString(Get(node, "text"))))
      [] nodeType = T_bulletList ->
            WriteString(bulletListLoop(content, 1, sb, indent), <<"\n">>)
      [] nodeType = T_orderedList ->
            WriteString(orderedListLoop(content, 1, sb, indent), <<"\n">>)
      [] nodeType = T_listItem -> forEachChild(content, 1, sb, indent)
      [] nodeType = T_codeBlock ->
            WriteString(
                writeIndent(
                    forEachChild(content, 1,
                        WriteString(writeIndent(WriteString(sb, <<"\n">>), indent),
                                    <<"U+0060", "U+0060", "U+0060", "\n">>),
                        indent),
                    indent),
                <<"U+0060", "U+0060", "U+0060", "\n">>)
      [] nodeType = T_blockquote -> blockquoteLoop(content, 1, sb, indent)
      [] nodeType = T_hardBreak -> WriteString(sb, <<"\n">>)
      [] nodeType = T_rule ->
            WriteString(writeIndent(WriteString(sb, <<"\n">>), indent),
                        <<"-", "-", "-", "\n">>)
      [] nodeType = T_mention ->
            WriteString(WriteString(sb, <<"@">>),
                        AsString(Get(AsMap(Get(node, "attrs")), "text")))
      [] nodeType = T_emoji ->
            WriteString(sb, AsString(Get(AsMap(Get(node, "attrs")), "shortName")))
      [] nodeType \in {T_inlineCard, T_blockCard} ->
            WriteString(sb, AsString(Get(AsMap(Get(node, "attrs")), "url")))
      [] nodeType = T_panel ->
            WriteString(
                forEachChild(content, 1,
                    WriteString(writeIndent(WriteString(sb, <<"\n">>), indent),
                        <<"[">> \o ToUpper(AsString(Get(AsMap(Get(node, "attrs")), "panelType")))
                              \o <<"]", "\n">>),
                    indent + 2),
                <<"\n">>)
      [] nodeType = T_table -> forEachChild(content, 1, sb, indent)
      [] nodeType = T_tableRow ->
            WriteString(tableRowLoop(content, 1, writeIndent(sb, indent), indent), <<"\n">>)
      [] nodeType \in {T_tableHeader, T_tableCell} -> forEachChild(content, 1, sb, indent)
      [] OTHER -> processUnknown(content, sb, indent)

\* the loop of processListItem over the item's content
RECURSIVE listItemLoop(_, _, _, _)
listItemLoop(content, i, sb, indent) ==
    IF i > Len(content) \/ sb.panicked THEN sb
    ELSE listItemLoop(content, i + 1,
            IF IsMap(content[i])
            THEN IF AsString(Get(content[i].v, "type")) = T_paragraph
                 THEN forEachChild(AsArray(Get(content[i].v, "content")), 1, sb, indent)
                 ELSE processNode(content[i].v, sb, indent + 2)
            ELSE sb,
            indent)

processListItem(node, sb, indent, marker) ==
    WriteString(
        listItemLoop(AsArray(Get(node, "content")), 1,
            WriteString(WriteString(writeIndent(sb, indent), marker), <<" ">>),
            indent),
        <<"\n">>)

\* a version that renders a bare string as itself
ADFToTextStringAsText(x) ==
    IF x.k = "null" THEN [panicked |-> FALSE, value |-> <<>>]
    ELSE IF x.k = "str" THEN [panicked |-> FALSE, value |-> TrimSpace(x.v)]
    ELSE IF ~IsMap(x) THEN [panicked |-> FALSE, value |-> <<>>]
    ELSE LET sb == processNode(x.v, NewBuilder, 0)
         IN  IF sb.panicked THEN [panicked |-> TRUE, value |-> <<>>]
             ELSE [panicked |-> FALSE, value |-> TrimSpace(sb.buf)]

\* ADFToText: [panicked, value]
ADFToText(x) ==
    IF x.k = "null" THEN [panicked |-> FALSE, value |-> <<>>]
    ELSE IF ~IsMap(x) THEN [panicked |-> FALSE, value |-> <<>>]
    ELSE LET sb == processNode(x.v, NewBuilder, 0)
         IN  IF sb.panicked THEN [panicked |-> TRUE, value |-> <<>>]
             ELSE [panicked |-> FALSE, value |-> TrimSpace(sb.buf)]

---------------------------------------------------------------------------
(* HTMLToText: src/internal/atlassian/html.go                               *)
(* The regular expressions are matched as Go's regexp package matches them: *)
(* leftmost, the first alternative the backtracking order finds; "." does  *)
(* not match a line break; \s is [\t\n\f\r ].                              *)

RegexSpace == {"\t", "\n", "\f", "\r", " "}

StartsWithAt(s, i, lit) ==
    /\ i >= 1
    /\ i + Len(lit) - 1 <= Len(s)
    /\ SubSeq(s, i, i + Len(lit) - 1) = lit

\* the first place at or after i where s holds c (0: none)
RECURSIVE FindChar(_, _, _)
FindChar(s, i, c) ==
    IF i > Len(s) THEN 0 ELSE IF s[i] = c THEN i ELSE FindChar(s, i + 1, c)

\* (.*?) followed by lit, from k on: where lit starts (0: no match)
RECURSIVE ScanLazy(_, _, _)
ScanLazy(s, k, lit) ==
    IF StartsWithAt(s, k, lit) THEN k
    ELSE IF k > Len(s) \/ s[k] = "\n" THEN 0
    ELSE ScanLazy(s, k + 1, lit)

\* \s* from k on: the first place that holds no white space
RECURSIVE SkipSpace(_, _)
SkipSpace(s, k) ==
    IF k <= Len(s) /\ s[k] \in RegexSpace THEN SkipSpace(s, k + 1) ELSE k

\* the patterns of the passes
Open(prefix) == [kind |-> "open", prefix |-> prefix]                   \* <x[^>]*>
Lit(lit) == [kind |-> "lit", lit |-> lit]                              \* a literal
Pair(prefixes, close) ==                                               \* <x[^>]*>(.*?)</x>
    [kind |-> "pair", prefixes |-> prefixes, close |-> close]
Attr(prefix, attr, close) ==                                           \* <x[^>]*a="([^"]*)"[^>]*>
    [kind |-> "attr", prefix |-> prefix, attr |-> attr, close |-> close]
Br == [kind |-> "br"]                                                  \* <br\s*/?>
AnyTag == [kind |-> "anytag"]                                          \* <[^>]+>
Blank == [kind |-> "blank"]                                            \* \n\s*\n\s*\n+
HSpace == [kind |-> "hspace"]                                          \* [ \t]+

\* a match: the place of its last character (0: no match) and its groups
NoMatch == [end |-> 0, g1 |-> <<>>, g2 |-> <<>>]
MatchTo(e) == [end |-> e, g1 |-> <<>>, g2 |-> <<>>]

\* prefix[^>]*> at i: the place of the ">" (0: no match)
OpenEnd(s, i, prefix) ==
    IF StartsWithAt(s, i, prefix) THEN FindChar(s, i + Len(prefix), ">") ELSE 0

MatchOpen(s, i, prefix) == MatchTo(OpenEnd(s, i, prefix))

MatchLit(s, i, lit) ==
    IF lit # <<>> /\ StartsWithAt(s, i, lit) THEN MatchTo(i + Len(lit) - 1) ELSE NoMatch

\* the opening tags one after the other: the place of the last ">" (0: no match)
RECURSIVE OpensEnd(_, _, _)
OpensEnd(s, i, prefixes) ==
    LET e == OpenEnd(s, i, Head(prefixes))
    IN  IF e = 0 \/ Len(prefixes) = 1 THEN e ELSE OpensEnd(s, e + 1, Tail(prefixes))

MatchPair(s, i, prefixes, close) ==
    LET e == OpensEnd(s, i, prefixes)
        k == IF e = 0 THEN 0 ELSE ScanLazy(s, e + 1, close)
    IN  IF k = 0 THEN NoMatch
        ELSE [end |-> k + Len(close) - 1, g1 |-> SubSeq(s, e + 1, k - 1), g2 |-> <<>>]

\* prefix[^>]*attr([^"]*)"[^>]*> and, with close, (.*?)close, the attribute at p
AttrAt(s, p, attr, close) ==
    LET q == FindChar(s, p + Len(attr), "\"")
        r == IF q = 0 THEN 0 ELSE FindChar(s, q + 1, ">")
        k == IF r = 0 THEN 0 ELSE IF close = <<>> THEN r + 1 ELSE ScanLazy(s, r + 1, close)
    IN  IF k = 0 THEN NoMatch
        ELSE [end |-> IF close = <<>> THEN r ELSE k + Len(close) - 1,
              g1 |-> SubSeq(s, p + Len(attr), q - 1),
              g2 |-> SubSeq(s, r + 1, k - 1)]

\* [^>]* is greedy: the last place of the attribute that lets the rest match
MatchAttr(s, i, prefix, attr, close) ==
    IF ~StartsWithAt(s, i, prefix) THEN NoMatch
    ELSE LET from == i + Len(prefix)
             gt == FindChar(s, from, ">")
             last == IF gt = 0 THEN Len(s) ELSE gt - 1
             places == {p \in from..last :
                            /\ StartsWithAt(s, p, attr)
                            /\ (gt = 0 \/ p <= gt - 1)
                            /\ AttrAt(s, p, attr, close).end > 0}
         IN  IF places = {} THEN NoMatch
             ELSE AttrAt(s, CHOOSE p \in places : \A o \in places : o <= p, attr, close)

MatchBr(s, i) ==
    IF ~StartsWithAt(s, i, <<"<", "b", "r">>) THEN NoMatch
    ELSE LET k == SkipSpace(s, i + 3)
             j == IF k <= Len(s) /\ s[k] = "/" THEN k + 1 ELSE k
         IN  IF j <= Len(s) /\ s[j] = ">" THEN MatchTo(j) ELSE NoMatch

MatchAnyTag(s, i) ==
    IF i + 1 <= Len(s) /\ s[i] = "<" /\ s[i + 1] # ">"
    THEN MatchTo(FindChar(s, i + 2, ">"))
    ELSE NoMatch

\* a version that takes two line breaks for a run to collapse
MatchBlankTwo(s, i) ==
    IF i > Len(s) \/ s[i] # "\n" THEN NoMatch
    ELSE LET stop == SkipSpace(s, i)
             breaks == {k \in i..(stop - 1) : s[k] = "\n"}
         IN  IF Cardinality(breaks) < 2 THEN NoMatch
             ELSE MatchTo(CHOOSE k \in breaks : \A o \in breaks : o <= k)

\* a version that leaves a run of three line breaks as it is
MatchBlankFour(s, i) ==
    IF i > Len(s) \/ s[i] # "\n" THEN NoMatch
    ELSE LET stop == SkipSpace(s, i)
             breaks == {k \in i..(stop - 1) : s[k] = "\n"}
         IN  IF Cardinality(breaks) < 4 THEN NoMatch
             ELSE MatchTo(CHOOSE k \in breaks : \A o \in breaks : o <= k)

\* \n\s*\n\s*\n+ at i: the white space from i on holds three line breaks or
\* more, and the match ends with the last of them
MatchBlank(s, i) ==
    IF i > Len(s) \/ s[i] # "\n" THEN NoMatch
    ELSE LET stop == SkipSpace(s, i)
             breaks == {k \in i..(stop - 1) : s[k] = "\n"}
         IN  IF Cardinality(breaks) < 3 THEN NoMatch
             ELSE MatchTo(CHOOSE k \in breaks : \A o \in breaks : o <= k)

RECURSIVE SkipHSpace(_, _)
SkipHSpace(s, k) ==
    IF k <= Len(s) /\ s[k] \in {" ", "\t"} THEN SkipHSpace(s, k + 1) ELSE k

\* a version that takes one character, [ \t] without the +
MatchHSpaceOne(s, i) ==
    IF i <= Len(s) /\ s[i] \in {" ", "\t"} THEN MatchTo(i) ELSE NoMatch

MatchHSpace(s, i) ==
    IF i <= Len(s) /\ s[i] \in {" ", "\t"} THEN MatchTo(SkipHSpace(s, i) - 1) ELSE NoMatch

MatchAt(pat, s, i) ==
    CASE pat.kind = "open" -> MatchOpen(s, i, pat.prefix)
      [] pat.kind = "lit" -> MatchLit(s, i, pat.lit)
      [] pat.kind = "pair" -> MatchPair(s, i, pat.prefixes, pat.close)
      [] pat.kind = "attr" -> MatchAttr(s, i, pat.prefix, pat.attr, pat.close)
      [] pat.kind = "br" -> MatchBr(s, i)
      [] pat.kind = "anytag" -> MatchAnyTag(s, i)
      [] pat.kind = "blank" -> MatchBlank(s, i)
      [] pat.kind = "hspace" -> MatchHSpace(s, i)

\* the replacement template with $1 and $2 filled in
RECURSIVE Expand(_, _)
Expand(tmpl, m) ==
    IF tmpl = <<>> THEN <<>>
    ELSE (CASE Head(tmpl) = "$1" -> m.g1
            [] Head(tmpl) = "$2" -> m.g2
            [] OTHER -> <<Head(tmpl)>>) \o Expand(Tail(tmpl), m)

\* regexp.ReplaceAllString and strings.ReplaceAll: the matches from left to
\* right, none overlapping another
RECURSIVE ReplaceFrom(_, _, _, _)
ReplaceFrom(pat, s, tmpl, i) ==
    IF i > Len(s) THEN <<>>
    ELSE LET m == MatchAt(pat, s, i)
         IN  IF m.end >= i
             THEN Expand(tmpl, m) \o ReplaceFrom(pat, s, tmpl, m.end + 1)
             ELSE <<s[i]>> \o ReplaceFrom(pat, s, tmpl, i + 1)

ReplaceAllString(pat, s, tmpl) == ReplaceFrom(pat, s, tmpl, 1)

\* the passes of HTMLToText in the order of the source, lines 18 to 99
HTMLPasses == <<
    [pat |-> Pair(<<<<"<", "h", "1">>>>, <<"<", "/", "h", "1", ">">>),
     tmpl |-> <<"\n", "#", " ", "$1", "\n">>],
    [pat |-> Pair(<<<<"<", "h", "2">>>>, <<"<", "/", "h", "2", ">">>),
     tmpl |-> <<"\n", "#", "#", " ", "$1", "\n">>],
    [pat |-> Pair(<<<<"<", "h", "3">>>>, <<"<", "/", "h", "3", ">">>),
     tmpl |-> <<"\n", "#", "#", "#", " ", "$1", "\n">>],
    [pat |-> Pair(<<<<"<", "h", "4">>>>, <<"<", "/", "h", "4", ">">>),
     tmpl |-> <<"\n", "#", "#", "#", "#", " ", "$1", "\n">>],
    [pat |-> Pair(<<<<"<", "h", "5">>>>, <<"<", "/", "h", "5", ">">>),
     tmpl |-> <<"\n", "#", "#", "#", "#", "#", " ", "$1", "\n">>],
    [pat |-> Pair(<<<<"<", "h", "6">>>>, <<"<", "/", "h", "6", ">">>),
     tmpl |-> <<"\n", "#", "#", "#", "#", "#", "#", " ", "$1", "\n">>],
    [pat |-> Open(<<"<", "p">>),
     tmpl |-> <<"\n">>],
    [pat |-> Lit(<<"<", "/", "p", ">">>),
     tmpl |-> <<"\n">>],
    [pat |-> Br,
     tmpl |-> <<"\n">>],
    [pat |-> Open(<<"<", "l", "i">>),
     tmpl |-> <<"\n", "U+00E2", "U+20AC", "U+00A2", " ">>],
    [pat |-> Lit(<<"<", "/", "l", "i", ">">>),
     tmpl |-> <<>>],
    [pat |-> Open(<<"<", "u", "l">>),
     tmpl |-> <<"\n">>],
    [pat |-> Lit(<<"<", "/", "u", "l", ">">>),
     tmpl |-> <<"\n">>],
    [pat |-> Open(<<"<", "o", "l">>),
     tmpl |-> <<"\n">>],
    [pat |-> Lit(<<"<", "/", "o", "l", ">">>),
     tmpl |-> <<"\n">>],
    [pat |-> Pair(<<<<"<", "p", "r", "e">>, <<"<", "c", "o", "d", "e">>>>, <<"<", "/", "c", "o", "d", "e", ">", "<", "/", "p", "r", "e", ">">>),
     tmpl |-> <<"\n", "U+0060", "U+0060", "U+0060", "\n", "$1", "\n", "U+0060", "U+0060", "U+0060", "\n">>],
    [pat |-> Pair(<<<<"<", "p", "r", "e">>>>, <<"<", "/", "p", "r", "e", ">">>),
     tmpl |-> <<"\n", "U+0060", "U+0060", "U+0060", "\n", "$1", "\n", "U+0060", "U+0060", "U+0060", "\n">>],
    [pat |-> Pair(<<<<"<", "c", "o", "d", "e">>>>, <<"<", "/", "c", "o", "d", "e", ">">>),
     tmpl |-> <<"U+0060", "$1", "U+0060">>],
    [pat |-> Pair(<<<<"<", "s", "t", "r", "o", "n", "g">>>>, <<"<", "/", "s", "t", "r", "o", "n", "g", ">">>),
     tmpl |-> <<"*", "*", "$1", "*", "*">>],
    [pat |-> Pair(<<<<"<", "b">>>>, <<"<", "/", "b", ">">>),
     tmpl |-> <<"*", "*", "$1", "*", "*">>],
    [pat |-> Pair(<<<<"<", "e", "m">>>>, <<"<", "/", "e", "m", ">">>),
     tmpl |-> <<"*", "$1", "*">>],
    [pat |-> Pair(<<<<"<", "i">>>>, <<"<", "/", "i", ">">>),
     tmpl |-> <<"*", "$1", "*">>],
    [pat |-> Attr(<<"<", "a">>, <<"h", "r", "e", "f", "=", "\"">>, <<"<", "/", "a", ">">>),
     tmpl |-> <<"$2", " ", "(", "$1", ")">>],
    [pat |-> Attr(<<"<", "i", "m", "g">>, <<"a", "l", "t", "=", "\"">>, <<>>),
     tmpl |-> <<"[", "I", "m", "a", "g", "e", ":", " ", "$1", "]">>],
    [pat |-> Attr(<<"<", "i", "m", "g">>, <<"s", "r", "c", "=", "\"">>, <<>>),
     tmpl |-> <<"[", "I", "m", "a", "g", "e", ":", " ", "$1", "]">>],
    [pat |-> Open(<<"<", "t", "a", "b", "l", "e">>),
     tmpl |-> <<"\n">>],
    [pat |-> Lit(<<"<", "/", "t", "a", "b", "l", "e", ">">>),
     tmpl |-> <<"\n">>],
    [pat |-> Open(<<"<", "t", "r">>),
     tmpl |-> <<>>],
    [pat |-> Lit(<<"<", "/", "t", "r", ">">>),
     tmpl |-> <<"\n">>],
    [pat |-> Open(<<"<", "t", "h">>),
     tmpl |-> <<"|", " ">>],
    [pat |-> Lit(<<"<", "/", "t", "h", ">">>),
     tmpl |-> <<" ">>],
    [pat |-> Open(<<"<", "t", "d">>),
     tmpl |-> <<"|", " ">>],
    [pat |-> Lit(<<"<", "/", "t", "d", ">">>),
     tmpl |-> <<" ">>],
    [pat |-> Open(<<"<", "d", "i", "v">>),
     tmpl |-> <<"\n">>],
    [pat |-> Lit(<<"<", "/", "d", "i", "v", ">">>),
     tmpl |-> <<"\n">>],
    [pat |-> Open(<<"<", "s", "p", "a", "n">>),
     tmpl |-> <<>>],
    [pat |-> Lit(<<"<", "/", "s", "p", "a", "n", ">">>),
     tmpl |-> <<>>],
    [pat |-> Open(<<"<", "b", "l", "o", "c", "k", "q", "u", "o", "t", "e">>),
     tmpl |-> <<"\n", ">", " ">>],
    [pat |-> Lit(<<"<", "/", "b", "l", "o", "c", "k", "q", "u", "o", "t", "e", ">">>),
     tmpl |-> <<"\n">>],
    [pat |-> AnyTag,
     tmpl |-> <<>>],
    [pat |-> Lit(<<"&", "a", "m", "p", ";">>),
     tmpl |-> <<"&">>],
    [pat |-> Lit(<<"&", "l", "t", ";">>),
     tmpl |-> <<"<">>],
    [pat |-> Lit(<<"&", "g", "t", ";">>),
     tmpl |-> <<">">>],
    [pat |-> Lit(<<"&", "q", "u", "o", "t", ";">>),
     tmpl |-> <<"\"">>],
    [pat |-> Lit(<<"&", "#", "3", "9", ";">>),
     tmpl |-> <<"'">>],
    [pat |-> Lit(<<"&", "n", "b", "s", "p", ";">>),
     tmpl |-> <<" ">>],
    [pat |-> Blank,
     tmpl |-> <<"\n", "\n">>],
    [pat |-> HSpace,
     tmpl |-> <<" ">>]
>>

\* text = regexp.MustCompile(...).ReplaceAllString(text, ...), pass after pass
\* (the test on Len makes TLC finish a pass before it starts the next)
RECURSIVE RunPasses(_, _, _)
RunPasses(passes, k, text) ==
    IF k > Len(passes) THEN text
    ELSE LET next == ReplaceAllString(passes[k].pat, text, passes[k].tmpl)
         IN  IF Len(next) >= 0 THEN RunPasses(passes, k + 1, next) ELSE next

HTMLToText(h) ==
    IF h = <<>> THEN <<>>
    ELSE TrimSpace(RunPasses(HTMLPasses, 1, h))

\* the place of the pass <[^>]+> among the passes
TagStripping == 40

\* text after the first n passes
TextAfter(h, n) == RunPasses(SubSeq(HTMLPasses, 1, n), 1, h)

---------------------------------------------------------------------------
(* The JSON values the caller may hand to ADFToText *)

TextNode(t) == Obj([type |-> Str(T_text), text |-> Str(t)])
MarkedText(t, marks) == Obj([type |-> Str(T_text), text |-> Str(t), marks |-> Arr(marks)])
Mark(markType) == Obj([type |-> Str(markType)])
Node(nodeType, content) == Obj([type |-> Str(nodeType), content |-> Arr(content)])
NodeWithAttrs(nodeType, attrs, content) ==
    Obj([type |-> Str(nodeType), attrs |-> attrs, content |-> Arr(content)])
Para(content) == Node(T_paragraph, content)
Doc(content) == Obj([type |-> Str(T_doc), version |-> Num(2), content |-> Arr(content)])
Level(halves) == Obj([level |-> Num(halves)])
EmptyObject == Obj(<<>>)

T_futureNode == <<"f", "u", "t", "u", "r", "e", "N", "o", "d", "e">>
T_underline == <<"u", "n", "d", "e", "r", "l", "i", "n", "e">>

\* Texts: plain ones, and ones that are empty or have white space at an end
PlainTexts == {<<"T">>, <<"a", " ", "b">>}
EdgeTexts == {<<>>, <<"a", " ">>}
Texts == PlainTexts \cup EdgeTexts
IsPlainText(t) == t # <<>> /\ t[1] \notin WhiteSpace /\ t[Len(t)] \notin WhiteSpace

SeqsUpTo(S, n) == UNION {[1..m -> S] : m \in 0..n}

NonObjects ==
    {Null, Str(<<"T">>), Num(2), Bool(TRUE), Arr(<<>>),
     Arr(<<Doc(<<Para(<<TextNode(<<"T">>)>>)>>)>>)}

\* heading.attrs: absent, of a wrong type, without level, with a level
LevelHalves == (-2)..(2 * MaxLevelTried + 1)
AttrsValues ==
    {Null, Str(<<"x">>), EmptyObject, Obj([level |-> Str(<<"2">>)])}
      \cup {Level(h) : h \in LevelHalves}
HeadingNodes(t) ==
    {Node(T_heading, <<TextNode(t)>>)}
      \cup {NodeWithAttrs(T_heading, a, <<TextNode(t)>>) : a \in AttrsValues}
HeadingDocs ==
    UNION {{Doc(<<h>>), Doc(<<Para(<<TextNode(<<"a">>)>>), h>>)} :
              h \in UNION {HeadingNodes(t) : t \in Texts}}

MarkValues ==
    {Mark(T_strong), Mark(T_em), Mark(T_code), Mark(T_strike), Mark(T_underline),
     Str(T_strong)}
MarkDocs ==
    {Doc(<<Para(<<MarkedText(t, m)>>)>>) : t \in Texts, m \in SeqsUpTo(MarkValues, MaxMarks)}

Item(content) == Node(T_listItem, content)
ListEntries ==
    {Null,
     Item(<<Para(<<TextNode(<<"T">>)>>)>>),
     Item(<<Para(<<TextNode(<<"a", " ", "b">>)>>),
            Node(T_bulletList, <<Item(<<Para(<<TextNode(<<"T">>)>>)>>)>>)>>),
     Item(<<Para(<<TextNode(<<"a">>)>>),
            Node(T_orderedList, <<Item(<<Para(<<TextNode(<<"b">>)>>)>>)>>)>>),
     Para(<<TextNode(<<"T">>)>>)}
ListDocs ==
    {Doc(<<Node(k, c)>>) : k \in {T_bulletList, T_orderedList},
                           c \in SeqsUpTo(ListEntries, MaxItems)}

CellValues ==
    {Node(T_tableHeader, <<Para(<<TextNode(<<"a">>)>>)>>),
     Node(T_tableCell, <<TextNode(<<"b">>)>>)}
RowValues == {Node(T_tableRow, c) : c \in SeqsUpTo(CellValues, MaxCells)} \cup {Null}
TableDocs == {Doc(<<Node(T_table, r)>>) : r \in SeqsUpTo(RowValues, MaxRows)}

\* a node of no known kind: an unknown tag, no type key, a type that is no string
UnknownNode(tag, content) ==
    CASE tag = "future" -> Node(T_futureNode, content)
      [] tag = "untyped" -> Obj([content |-> Arr(content)])
      [] OTHER -> Obj([type |-> Num(2), content |-> Arr(content)])
UnknownTags == {"future", "untyped", "numeric"}
UnknownChildren ==
    {<<>>,
     <<TextNode(<<"T">>)>>,
     <<Para(<<TextNode(<<"a", " ", "b">>)>>)>>,
     <<Para(<<TextNode(<<"T">>)>>), NodeWithAttrs(T_heading, Level(4), <<TextNode(<<"a">>)>>)>>,
     <<Node(T_futureNode, <<Para(<<TextNode(<<"T">>)>>)>>), Null>>}
Before == {<<>>, <<Para(<<TextNode(<<"b">>)>>)>>}
After ==
    {<<>>, <<Para(<<TextNode(<<"b">>)>>)>>,
     <<NodeWithAttrs(T_heading, Level(2), <<TextNode(<<"T">>)>>)>>}
UnknownDocs ==
    {Doc(b \o <<UnknownNode(tag, c)>> \o a) :
        tag \in UnknownTags, c \in UnknownChildren, b \in Before, a \in After}
      \cup {Doc(<<Para(<<TextNode(<<"b">>), UnknownNode(tag, <<TextNode(<<"T">>)>>)>>)>>) :
              tag \in UnknownTags}

\* the remaining node kinds
OtherDocs ==
    {Doc(<<n>>) : n \in
        {Node(T_codeBlock, <<TextNode(<<"a", " ", "b">>)>>),
         Node(T_blockquote, <<Para(<<TextNode(<<"T">>)>>), Para(<<TextNode(<<"a">>)>>)>>),
         Para(<<TextNode(<<"a">>), Node(T_hardBreak, <<>>), TextNode(<<"b">>)>>),
         Node(T_rule, <<>>),
         Para(<<NodeWithAttrs(T_mention, Obj([text |-> Str(<<"T">>)]), <<>>)>>),
         Para(<<NodeWithAttrs(T_emoji, Obj([shortName |-> Str(<<":", "a", ":">>)]), <<>>)>>),
         Para(<<NodeWithAttrs(T_inlineCard, Obj([url |-> Str(<<"a", ".", "b">>)]), <<>>)>>),
         NodeWithAttrs(T_blockCard, Null, <<>>),
         NodeWithAttrs(T_panel, Obj([panelType |-> Str(<<"i", "n", "f", "o">>)]),
                       <<Para(<<TextNode(<<"T">>)>>)>>),
         Obj([type |-> Str(T_paragraph), content |-> Str(<<"T">>)])}}

ADFInputs ==
    NonObjects \cup HeadingDocs \cup MarkDocs \cup ListDocs \cup TableDocs
      \cup UnknownDocs \cup OtherDocs

---------------------------------------------------------------------------
(* The state machine: the caller holds a decoded value and calls ADFToText *)

NoResult == [panicked |-> FALSE, value |-> <<>>]

Init ==
    /\ pc = "ready"
    /\ adf \in ADFInputs
    /\ result = NoResult
    /\ html = <<>>
    /\ rendered = <<>>
    /\ Unused(threads) /\ Unused(jira) /\ Unused(account) /\ Unused(auth) /\ Unused(client)

CallADFToText ==
    /\ pc = "ready"
    /\ result' = ADFToText(adf)
    /\ pc' = "done"
    /\ UNCHANGED <<adf, html, rendered, threads, jira, account, auth, client>>

Next == CallADFToText

Spec == Init /\ [][Next]_vars

---------------------------------------------------------------------------
(* The strings the caller may hand to HTMLToText *)

PlainChars == {"a", " ", "\n", ">"}
PlainInputs == SeqsUpTo(PlainChars, MaxPlainLen)

Fragments ==
    {<<"a">>, <<"\t">>, <<"&", "a", "m", "p", ";">>,
     <<"<", "p", ">">>, <<"<", "/", "p", ">">>,
     <<"<", "b", ">">>, <<"<", "/", "b", ">">>}
RECURSIVE Flatten(_)
Flatten(ss) == IF ss = <<>> THEN <<>> ELSE Head(ss) \o Flatten(Tail(ss))
MarkupInputs == {Flatten(f) : f \in SeqsUpTo(Fragments, MaxFrags)}

(* Markup handed to HTMLToText: elements, with and without attributes *)

TagOpen(name, attrs) == <<"<">> \o name \o attrs \o <<">">>
TagClose(name) == <<"<", "/">> \o name \o <<">">>
Element(name, attrs, inner) == TagOpen(name, attrs) \o inner \o TagClose(name)

NoAttrs == <<>>
ClassAttr == <<" ", "c", "l", "a", "s", "s", "=", "\"", "x", "\"">>
AttrStrings == {NoAttrs, ClassAttr}

\* headings h1..h6, their content on one line or on two
HeadingLevels == 1..6
HeadingName(L) == <<"h", Digit(L)>>
OneLineContents == {<<"T">>, <<"a", " ", "b">>}
TwoLineContents == {<<"a", "\n", "b">>}
HeadingContents == OneLineContents \cup TwoLineContents
HeadingHTML(L, attrs, inner) == Element(HeadingName(L), attrs, inner)
HeadingPairHTML(L, M) == HeadingHTML(L, NoAttrs, <<"T">>) \o HeadingHTML(M, NoAttrs, <<"U">>)
HeadingInputs ==
    {HeadingHTML(L, at, c) : L \in HeadingLevels, at \in AttrStrings, c \in HeadingContents}
    \cup {HeadingPairHTML(L, M) : L \in HeadingLevels, M \in HeadingLevels}

\* code blocks: <pre><code>X</code></pre> and <pre>X</pre>
N_pre == <<"p", "r", "e">>
N_code == <<"c", "o", "d", "e">>
CodeTexts == {<<"X">>, <<"a", " ", "b">>, <<"a", "\n", "b">>}
PreCodeHTML(X) == Element(N_pre, NoAttrs, Element(N_code, NoAttrs, X))
PreHTML(X) == Element(N_pre, NoAttrs, X)
CodeBlockInputs ==
    {PreCodeHTML(X) : X \in CodeTexts} \cup {PreHTML(X) : X \in CodeTexts}
    \cup {<<"a">> \o b \o <<"b">> : b \in {PreCodeHTML(<<"X">>), PreHTML(<<"X">>)}}

\* lists: <ul> and <ol> with items
N_ul == <<"u", "l">>
N_ol == <<"o", "l">>
N_li == <<"l", "i">>
ListNames == {N_ul, N_ol}
ItemTexts == {<<"A">>, <<"B">>}
RECURSIVE ItemsHTML(_)
ItemsHTML(items) ==
    IF items = <<>> THEN <<>>
    ELSE Element(N_li, NoAttrs, Head(items)) \o ItemsHTML(Tail(items))
ListHTML(name, items) == Element(name, NoAttrs, ItemsHTML(items))
ItemSeqs == SeqsUpTo(ItemTexts, MaxItems) \ {<<>>}
ListInputs == {ListHTML(name, items) : name \in ListNames, items \in ItemSeqs}

\* images: <img alt="A" src="S"> and <img src="S">, among other markup
N_img == <<"i", "m", "g">>
N_i == <<"i">>
N_em == <<"e", "m">>
AltAttr(A) == <<" ", "a", "l", "t", "=", "\"">> \o A \o <<"\"">>
SrcAttr(S) == <<" ", "s", "r", "c", "=", "\"">> \o S \o <<"\"">>
AltText == <<"A">>
SrcText == <<"S">>
ImgWithAlt == {TagOpen(N_img, AltAttr(AltText) \o SrcAttr(SrcText)),
               TagOpen(N_img, SrcAttr(SrcText) \o AltAttr(AltText)),
               TagOpen(N_img, AltAttr(AltText))}
ImgWithSrc == {TagOpen(N_img, SrcAttr(SrcText)), TagOpen(N_img, ClassAttr \o SrcAttr(SrcText))}
AroundImage ==
    {<<>>, <<"x">>, <<"x", "\n">>,
     Element(N_i, NoAttrs, <<"x">>), Element(N_em, NoAttrs, <<"x">>)}
ImageHTML(before, img, after) == before \o img \o after
ImageInputs ==
    {ImageHTML(b, img, a) : b \in AroundImage, img \in ImgWithAlt \cup ImgWithSrc, a \in AroundImage}

\* block quotes: the content as written and as it is rendered
N_blockquote == <<"b", "l", "o", "c", "k", "q", "u", "o", "t", "e">>
N_b == <<"b">>
N_strong == <<"s", "t", "r", "o", "n", "g">>
BoldText == <<"*", "*", "x", "*", "*">>
QuoteContents ==
    {[src |-> <<"Q">>, out |-> <<"Q">>],
     [src |-> Element(N_strong, NoAttrs, <<"x">>), out |-> BoldText],
     [src |-> Element(N_b, NoAttrs, <<"x">>), out |-> BoldText],
     [src |-> <<"Q", " ">> \o Element(N_b, NoAttrs, <<"x">>), out |-> <<"Q", " ">> \o BoldText]}
BeforeQuote == {<<>>, <<"a">>}
QuoteHTML(before, attrs, q) == before \o Element(N_blockquote, attrs, q.src)
QuoteInputs ==
    {QuoteHTML(b, at, q) : b \in BeforeQuote, at \in AttrStrings, q \in QuoteContents}

\* tags no pass is written for
N_custom == <<"c", "u", "s", "t", "o", "m", "-", "t", "a", "g">>
N_another == <<"a", "n", "o", "t", "h", "e", "r">>
N_thead == <<"t", "h", "e", "a", "d">>
N_link == <<"l", "i", "n", "k">>
UnknownNames == {N_custom, N_another, N_thead, N_link}
BeforeUnknown == {<<>>, <<"b", " ">>}
InsideUnknown == {<<"a">>, <<"a", " ", "b">>}
UnknownHTML(before, name, inner) == before \o Element(name, NoAttrs, inner)
UnknownPairHTML(name, other) ==
    Element(name, NoAttrs, <<"a">>) \o Element(other, NoAttrs, <<"b">>)
UnknownTagInputs ==
    {UnknownHTML(b, n, t) : b \in BeforeUnknown, n \in UnknownNames, t \in InsideUnknown}
    \cup {UnknownPairHTML(n, o) : n \in UnknownNames, o \in UnknownNames}

\* the supported tags, written with and without attributes
N_p == <<"p">>
N_br == <<"b", "r">>
N_a == <<"a">>
N_table == <<"t", "a", "b", "l", "e">>
N_tr == <<"t", "r">>
N_th == <<"t", "h">>
N_td == <<"t", "d">>
N_div == <<"d", "i", "v">>
N_span == <<"s", "p", "a", "n">>
ElementNames ==
    {HeadingName(L) : L \in HeadingLevels}
    \cup {N_p, N_li, N_ul, N_ol, N_pre, N_code, N_strong, N_b, N_em, N_i, N_a,
          N_table, N_tr, N_th, N_td, N_div, N_span, N_blockquote}
VoidNames == {N_br, N_img}
SupportedNames == ElementNames \cup VoidNames
HrefAttr(u) == <<" ", "h", "r", "e", "f", "=", "\"">> \o u \o <<"\"">>
\* the attributes the passes read: the href of <a>, the src of <img>
KeptAttrs(name) ==
    {NoAttrs} \cup (IF name = N_a THEN {HrefAttr(<<"u">>)} ELSE {})
              \cup (IF name = N_img THEN {SrcAttr(SrcText)} ELSE {})
TaggedHTML(name, attrs) ==
    IF name \in VoidNames
    THEN <<"a">> \o TagOpen(name, attrs) \o <<"b">>
    ELSE <<"a">> \o Element(name, attrs, <<"T">>) \o <<"b">>
AttributeInputs ==
    UNION {{TaggedHTML(n, at \o k) : at \in AttrStrings, k \in KeptAttrs(n)} :
               n \in SupportedNames}

\* entities: as written and as decoded
E_amp == <<"&", "a", "m", "p", ";">>
Nbsp == [src |-> <<"&", "n", "b", "s", "p", ";">>, out |-> <<" ">>]
Entities ==
    {[src |-> E_amp, out |-> <<"&">>],
     [src |-> <<"&", "l", "t", ";">>, out |-> <<"<">>],
     [src |-> <<"&", "g", "t", ";">>, out |-> <<">">>],
     [src |-> <<"&", "q", "u", "o", "t", ";">>, out |-> <<"\"">>],
     [src |-> <<"&", "#", "3", "9", ";">>, out |-> <<"'">>],
     Nbsp}
EntityHTML(x, e, y) == x \o e.src \o y
\* an entity written as text: its "&" is itself written &amp;
EscapedEntityHTML(x, e, y) == x \o E_amp \o Tail(e.src) \o y
AroundEntity == {<<"x">>, <<"y">>}
EntityInputs ==
    {EntityHTML(x, e, y) : x \in AroundEntity, e \in Entities, y \in AroundEntity}
    \cup {EscapedEntityHTML(x, e, y) : x \in AroundEntity, e \in Entities, y \in AroundEntity}
    \cup {EntityHTML(x, e, f.src) : x \in AroundEntity, e \in Entities, f \in Entities}

\* line breaks, written and made by the passes, between two texts
MaxBreaks == 3
BreakFragments ==
    {<<"\n">>, <<" ">>, TagOpen(N_p, NoAttrs), TagClose(N_p), TagOpen(N_br, NoAttrs),
     TagOpen(N_br, <<"/">>), TagClose(N_div)}
BreaksHTML(f) == <<"a">> \o Flatten(f) \o <<"b">>
BreakInputs == {BreaksHTML(f) : f \in SeqsUpTo(BreakFragments, MaxBreaks)}

\* markup next to text that holds a '<' of its own (as a CDATA section of a
\* code macro does), and escaped markup
CData(inner) == <<"<", "!", "[", "C", "D", "A", "T", "A", "[">> \o inner \o <<"]", "]", ">">>
LessThan == <<"a", " ", "<", " ", "b", " ">>
EscapedTag == <<"&", "l", "t", ";", "b", "&", "g", "t", ";">>
MarkedElements ==
    {Element(HeadingName(2), NoAttrs, <<"T">>), Element(N_li, NoAttrs, <<"T">>),
     Element(N_blockquote, NoAttrs, <<"T">>), Element(N_td, NoAttrs, <<"T">>),
     Element(N_th, NoAttrs, <<"T">>), Element(N_strong, NoAttrs, <<"T">>),
     Element(N_b, NoAttrs, <<"T">>), Element(N_em, NoAttrs, <<"T">>),
     Element(N_i, NoAttrs, <<"T">>), Element(N_code, NoAttrs, <<"T">>),
     TagOpen(N_img, AltAttr(AltText))}
OrderInputs ==
    {e : e \in MarkedElements}
    \cup {LessThan \o e : e \in MarkedElements}
    \cup {CData(LessThan \o e) : e \in MarkedElements}
    \cup {x \o EscapedTag \o y : x \in {<<>>, <<"a", " ">>}, y \in {<<>>, <<" ", "c">>}}


\* white space of every kind, written and escaped, around and inside text
SpaceFragments ==
    {<<"a">>, <<" ">>, <<"\t">>, <<"&", "n", "b", "s", "p", ";">>,
     <<"<", "/", "t", "d", ">">>, <<"U+00A0">>}
MaxSpaces == 4
SpaceInputs == {Flatten(f) : f \in SeqsUpTo(SpaceFragments, MaxSpaces)}


HTMLInputs ==
    PlainInputs \cup MarkupInputs
    \cup HeadingInputs \cup CodeBlockInputs
    \cup ListInputs \cup ImageInputs
    \cup QuoteInputs \cup UnknownTagInputs
    \cup OrderInputs \cup SpaceInputs
    \cup AttributeInputs \cup EntityInputs
    \cup BreakInputs

(* The state machine: the caller holds a page body and calls HTMLToText *)

InitHTML ==
    /\ pc = "ready"
    /\ html \in HTMLInputs
    /\ rendered = <<>>
    /\ adf = Null
    /\ result = NoResult
    /\ Unused(threads) /\ Unused(jira) /\ Unused(account) /\ Unused(auth) /\ Unused(client)

CallHTMLToText ==
    /\ pc = "ready"
    /\ rendered' = HTMLToText(html)
    /\ pc' = "done"
    /\ UNCHANGED <<html, adf, result, threads, jira, account, auth, client>>

NextHTML == CallHTMLToText

SpecHTML == InitHTML /\ [][NextHTML]_vars

---------------------------------------------------------------------------
(* MarkdownToADF: src/internal/atlassian/markdown.go                        *)
(* renderer.Render belongs to another repository: what it did with the     *)
(* input is a value [failed, valid, doc]: it returned an error, or it      *)
(* wrote bytes that are valid JSON for the value doc, or bytes that are    *)
(* not JSON.                                                               *)

RenderFailed == [failed |-> TRUE, valid |-> FALSE, doc |-> Null]
RenderJunk == [failed |-> FALSE, valid |-> FALSE, doc |-> Null]
RenderWrote(value) == [failed |-> FALSE, valid |-> TRUE, doc |-> value]

\* json.Unmarshal(buf.Bytes(), &adf) with adf a map[string]interface{}:
\* null leaves the map nil, an object fills it, anything else is an error
Unmarshal(bytes) ==
    IF bytes.valid /\ bytes.doc.k \in {"null", "obj"}
    THEN [failed |-> FALSE, adf |-> bytes.doc]
    ELSE [failed |-> TRUE, adf |-> Null]

\* MarkdownToADF, given what renderer.Render does with the input
MarkdownToADF(rendering) ==
    IF rendering.failed THEN [failed |-> TRUE, adf |-> Null]
    ELSE Unmarshal(rendering)

\* what renderer.Render can do with an input
Renderings ==
    {RenderFailed, RenderJunk, RenderWrote(Null), RenderWrote(Arr(<<>>)),
     RenderWrote(Doc(<<>>)), RenderWrote(Doc(<<Para(<<TextNode(<<"T">>)>>)>>))}

---------------------------------------------------------------------------
(* Concurrent calls: goroutines call the converters on values of a shared   *)
(* store, each statement of a call being one step.  The locals of a call   *)
(* (var sb strings.Builder; text := html; var buf bytes.Buffer) are the    *)
(* goroutine's own.                                                        *)

Goroutines == {1, 2}

\* the values the goroutines are given: two trees, two pages, a description
Store ==
    <<Doc(<<Para(<<TextNode(<<"T">>)>>),
            NodeWithAttrs(T_heading, Level(4), <<TextNode(<<"a", " ", "b">>)>>)>>),
      Doc(<<Node(T_bulletList, <<Item(<<Para(<<TextNode(<<"a">>)>>)>>), Null>>),
            Str(<<"x">>),
            Para(<<MarkedText(<<"b">>, <<Mark(T_strong)>>)>>)>>),
      <<"<", "h", "1", ">", "T", "<", "/", "h", "1", ">", "\n", "\n", "\n",
        "<", "b", ">", "a", "<", "/", "b", ">", "&", "a", "m", "p", ";">>,
      <<"a", " ", " ", "<", "p", ">", "b">>,
      <<"#", " ", "T">>>>
OpOf(slot) ==
    IF slot <= 2 THEN "ADFToText" ELSE IF slot <= 4 THEN "HTMLToText" ELSE "MarkdownToADF"

\* a call that has not returned
NoReturn == [op |-> "none"]
NoLocals == [sb |-> NewBuilder, text |-> <<>>, buf |-> RenderJunk]
NoRendering == [g \in Goroutines |-> RenderJunk]

\* a version in which the locals of every call are those of goroutine 1
LocalsOfFirst(g) == 1

\* the locals goroutine g reads and writes: its own
LocalsOf(g) == g

Locals(g) == threads.locals[LocalsOf(g)]
SetLocals(g, field, value) ==
    [threads.locals EXCEPT ![LocalsOf(g)] = [@ EXCEPT ![field] = value]]
At(g) == threads.at[g]
Input(g) == threads.store[At(g).slot]
Goto(g, label, k) == [threads.at EXCEPT ![g] = [@ EXCEPT !.pc = label, !.k = k]]
Return(g, value) == [threads.ret EXCEPT ![g] = [op |-> OpOf(At(g).slot), val |-> value]]

InitConcurrent ==
    /\ threads \in
         {[store |-> Store,
           at |-> [g \in Goroutines |-> [slot |-> slots[g], pc |-> "call", k |-> 0]],
           locals |-> [g \in Goroutines |-> NoLocals],
           rendering |-> NoRendering,
           ret |-> [g \in Goroutines |-> NoReturn]] :
              slots \in [Goroutines -> 1..Len(Store)]}
    /\ pc = "idle" /\ adf = Null /\ result = NoResult /\ html = <<>> /\ rendered = <<>>
    /\ Unused(jira) /\ Unused(account) /\ Unused(auth) /\ Unused(client)

\* ADFToText: the two early returns, or var sb strings.Builder
ADFEnter(g) ==
    /\ At(g).pc = "call" /\ OpOf(At(g).slot) = "ADFToText"
    /\ IF Input(g).k = "null" \/ ~IsMap(Input(g))
       THEN threads' = [threads EXCEPT !.at = Goto(g, "done", 0),
                                       !.ret = Return(g, NoResult)]
       ELSE threads' = [threads EXCEPT !.at = Goto(g, "walk", 1),
                                       !.locals = SetLocals(g, "sb", NewBuilder)]

\* processNode(doc, &sb, 0): one child of the root per step
ADFWalk(g) ==
    /\ At(g).pc = "walk"
    /\ LET root == Input(g).v
           content == AsArray(Get(root, "content"))
           k == At(g).k
           sb == Locals(g).sb
       IN  IF AsString(Get(root, "type")) # T_doc
           THEN threads' = [threads EXCEPT
                               !.at = Goto(g, "trim", 0),
                               !.locals = SetLocals(g, "sb", processNode(root, sb, 0))]
           ELSE IF k > Len(content) \/ sb.panicked
           THEN threads' = [threads EXCEPT !.at = Goto(g, "trim", 0)]
           ELSE threads' = [threads EXCEPT
                               !.at = Goto(g, "walk", k + 1),
                               !.locals = SetLocals(g, "sb",
                                   IF IsMap(content[k])
                                   THEN processNode(content[k].v, sb, 0)
                                   ELSE sb)]

\* return strings.TrimSpace(sb.String())
ADFReturn(g) ==
    /\ At(g).pc = "trim"
    /\ LET sb == Locals(g).sb
       IN  threads' = [threads EXCEPT
               !.at = Goto(g, "done", 0),
               !.ret = Return(g, IF sb.panicked THEN [panicked |-> TRUE, value |-> <<>>]
                                 ELSE [panicked |-> FALSE, value |-> TrimSpace(sb.buf)])]

\* HTMLToText: the early return, or text := html
HTMLEnter(g) ==
    /\ At(g).pc = "call" /\ OpOf(At(g).slot) = "HTMLToText"
    /\ IF Input(g) = <<>>
       THEN threads' = [threads EXCEPT !.at = Goto(g, "done", 0), !.ret = Return(g, <<>>)]
       ELSE threads' = [threads EXCEPT !.at = Goto(g, "pass", 1),
                                       !.locals = SetLocals(g, "text", Input(g))]

\* text = regexp.MustCompile(...).ReplaceAllString(text, ...): one pass per step
HTMLPass(g) ==
    /\ At(g).pc = "pass" /\ At(g).k <= Len(HTMLPasses)
    /\ threads' = [threads EXCEPT
           !.at = Goto(g, "pass", At(g).k + 1),
           !.locals = SetLocals(g, "text",
               ReplaceAllString(HTMLPasses[At(g).k].pat, Locals(g).text,
                                HTMLPasses[At(g).k].tmpl))]

\* text = strings.TrimSpace(text); return text
HTMLReturn(g) ==
    /\ At(g).pc = "pass" /\ At(g).k > Len(HTMLPasses)
    /\ threads' = [threads EXCEPT !.at = Goto(g, "done", 0),
                                  !.ret = Return(g, TrimSpace(Locals(g).text))]

\* MarkdownToADF: var buf bytes.Buffer; renderer.Render(&buf, []byte(markdown))
MarkdownRender(g) ==
    /\ At(g).pc = "call" /\ OpOf(At(g).slot) = "MarkdownToADF"
    /\ \E rendering \in Renderings :
           threads' = [threads EXCEPT !.at = Goto(g, "unmarshal", 0),
                                      !.rendering = [@ EXCEPT ![g] = rendering],
                                      !.locals = SetLocals(g, "buf", rendering)]

\* json.Unmarshal(buf.Bytes(), &adf); return adf, nil
MarkdownReturn(g) ==
    /\ At(g).pc = "unmarshal"
    /\ threads' = [threads EXCEPT !.at = Goto(g, "done", 0),
                                  !.ret = Return(g, MarkdownToADF(Locals(g).buf))]

NextConcurrent ==
    \E g \in Goroutines :
        /\ \/ ADFEnter(g) \/ ADFWalk(g) \/ ADFReturn(g)
           \/ HTMLEnter(g) \/ HTMLPass(g) \/ HTMLReturn(g)
           \/ MarkdownRender(g) \/ MarkdownReturn(g)
        /\ UNCHANGED <<pc, adf, result, html, rendered, jira, account, auth, client>>

SpecConcurrent == InitConcurrent /\ [][NextConcurrent]_vars

\* what the call of goroutine g returns when it runs alone (for MarkdownToADF:
\* given what renderer.Render did for this call)
Alone(g) ==
    CASE OpOf(At(g).slot) = "ADFToText" -> ADFToText(Store[At(g).slot])
      [] OpOf(At(g).slot) = "HTMLToText" -> HTMLToText(Store[At(g).slot])
      [] OTHER -> MarkdownToADF(threads.rendering[g])

---------------------------------------------------------------------------
(* Creating and editing an issue: CreateJiraIssue, EditJiraIssue and the    *)
(* create-issue and edit-issue commands.  A flag or an option is a string; *)
(* the text of --fields and the body of a response are [valid, doc] as for *)
(* the renderer; a map that is nil is Null.                                *)

\* m[key] = value on a map that is not nil
Put(m, key, value) ==
    [x \in DOMAIN m \cup {key} |-> IF x = key THEN value ELSE m[x]]

\* for k, v := range extra { m[k] = v }
Merge(m, extra) ==
    [x \in DOMAIN m \cup DOMAIN extra |-> IF x \in DOMAIN extra THEN extra[x] ELSE m[x]]

\* what the server does with a request: c.client.Do fails, or a status and a body
NoResponse == [err |-> TRUE, status |-> 0, valid |-> FALSE, doc |-> Null]
Response(status, valid, doc) == [err |-> FALSE, status |-> status, valid |-> valid, doc |-> doc]
IssueCreated == Obj([key |-> Str(<<"K", "-", "1">>)])
Responses ==
    {NoResponse, Response(201, TRUE, IssueCreated), Response(201, FALSE, Null),
     Response(204, TRUE, Null), Response(400, TRUE, EmptyObject)}

StatusCreated == 201
StatusNoContent == 204

\* what an operation did: the calls it made in order, the requests it sent,
\* and how it ended (an error, a panic, or a result)
Outcome(log, requests, failed, panicked, value) ==
    [log |-> log, requests |-> requests, failed |-> failed, panicked |-> panicked,
     result |-> value]
Failure(log, requests) == Outcome(log, requests, TRUE, FALSE, Null)

\* CreateJiraIssue: the fields of the request body, converted being what
\* MarkdownToADF returned for the description
CreateFields(opts, converted) ==
    LET base == [project |-> Obj([key |-> Str(opts.ProjectKey)]),
                 issuetype |-> Obj([name |-> Str(opts.IssueType)]),
                 summary |-> Str(opts.Summary)]
        described == IF opts.Description # <<>>
                     THEN Put(base, "description", converted) ELSE base
        assigned == IF opts.AssigneeID # <<>>
                    THEN Put(described, "assignee", Obj([id |-> Str(opts.AssigneeID)]))
                    ELSE described
        parented == IF opts.ParentKey # <<>>
                    THEN Put(assigned, "parent", Obj([key |-> Str(opts.ParentKey)]))
                    ELSE assigned
        prioritized == IF opts.PriorityID # <<>>
                       THEN Put(parented, "priority", Obj([id |-> Str(opts.PriorityID)]))
                       ELSE parented
    IN  IF opts.Fields # Null THEN Merge(prioritized, opts.Fields.v) ELSE prioritized

\* a request as doRequest sends it
Request(method, fields) == [method |-> method, body |-> Obj([fields |-> fields])]

\* a version that sends the request before it looks at the error of the converter
CreateJiraIssueSendsFirst(opts, rendering, response) ==
    LET md == MarkdownToADF(rendering)
        sent == <<Request("POST", Obj(CreateFields(opts, md.adf)))>>
        decoded == Unmarshal(response)
    IN  IF opts.Description # <<>> /\ md.failed
        THEN Failure(<<"doRequest", "MarkdownToADF">>, sent)
        ELSE IF response.err \/ response.status # StatusCreated \/ decoded.failed
        THEN Failure(<<"doRequest">>, sent)
        ELSE Outcome(<<"doRequest">>, sent, FALSE, FALSE, decoded.adf)

\* CreateJiraIssue(opts), given what the renderer and the server answer
CreateJiraIssue(opts, rendering, response) ==
    LET converts == opts.Description # <<>>
        log == IF converts THEN <<"MarkdownToADF">> ELSE <<>>
        md == MarkdownToADF(rendering)
        sent == <<Request("POST", Obj(CreateFields(opts, md.adf)))>>
        decoded == Unmarshal(response)
    IN  IF converts /\ md.failed THEN Failure(log, <<>>)
        ELSE IF response.err THEN Failure(log \o <<"doRequest">>, sent)
        ELSE IF response.status # StatusCreated THEN Failure(log \o <<"doRequest">>, sent)
        ELSE IF decoded.failed THEN Failure(log \o <<"doRequest">>, sent)
        ELSE Outcome(log \o <<"doRequest">>, sent, FALSE, FALSE, decoded.adf)

\* EditJiraIssue(issueKey, fields)
EditJiraIssue(fields, log, response) ==
    LET sent == <<Request("PUT", fields)>>
    IN  IF response.err \/ response.status # StatusNoContent
        THEN Failure(log \o <<"doRequest">>, sent)
        ELSE Outcome(log \o <<"doRequest">>, sent, FALSE, FALSE, Null)

\* the text of a --fields flag: not given, or [valid, doc]
NoFlag == [given |-> FALSE, valid |-> FALSE, doc |-> Null]
Flag(valid, doc) == [given |-> TRUE, valid |-> valid, doc |-> doc]

\* runJiraCreateIssue
runJiraCreateIssue(flags, loggedIn, rendering, response) ==
    LET parsed == Unmarshal(flags.fields)
        opts == [ProjectKey |-> flags.project, IssueType |-> flags.type,
                 Summary |-> flags.summary, Description |-> flags.description,
                 AssigneeID |-> flags.assignee, ParentKey |-> flags.parent,
                 PriorityID |-> <<>>,
                 Fields |-> IF flags.fields.given THEN parsed.adf ELSE Null]
    IN  IF ~loggedIn THEN Failure(<<>>, <<>>)
        ELSE IF flags.fields.given /\ parsed.failed THEN Failure(<<>>, <<>>)
        ELSE CreateJiraIssue(opts, rendering, response)

\* fields[key] = value in runJiraEditIssue: a write to a nil map panics
Assign(fields, key, value) ==
    IF fields = Null THEN [panicked |-> TRUE, fields |-> Null]
    ELSE [panicked |-> FALSE, fields |-> Obj(Put(fields.v, key, value))]

\* runJiraEditIssue
runJiraEditIssue(flags, loggedIn, rendering, response) ==
    LET parsed == Unmarshal(flags.fields)
        made == IF flags.fields.given THEN parsed.adf ELSE EmptyObject
        summarized == IF flags.summary # <<>>
                      THEN Assign(made, "summary", Str(flags.summary))
                      ELSE [panicked |-> FALSE, fields |-> made]
        converts == flags.description # <<>>
        log == IF converts THEN <<"MarkdownToADF">> ELSE <<>>
        md == MarkdownToADF(rendering)
        described == IF converts THEN Assign(summarized.fields, "description", md.adf)
                     ELSE summarized
        assigned == IF flags.assignee # <<>>
                    THEN Assign(described.fields, "assignee", Obj([id |-> Str(flags.assignee)]))
                    ELSE described
    IN  IF flags.summary = <<>> /\ flags.description = <<>> /\ flags.assignee = <<>>
           /\ ~flags.fields.given
        THEN Failure(<<>>, <<>>)
        ELSE IF ~loggedIn THEN Failure(<<>>, <<>>)
        ELSE IF flags.fields.given /\ parsed.failed THEN Failure(<<>>, <<>>)
        ELSE IF summarized.panicked THEN Outcome(<<>>, <<>>, FALSE, TRUE, Null)
        ELSE IF converts /\ md.failed THEN Failure(log, <<>>)
        ELSE IF described.panicked \/ assigned.panicked
        THEN Outcome(log, <<>>, FALSE, TRUE, Null)
        ELSE EditJiraIssue(assigned.fields, log, response)

\* the inputs
Descriptions == {<<>>, <<"T">>, <<"#", " ", "T">>}
Optional == {<<>>, <<"u">>}
AdditionalFields ==
    {EmptyObject,
     Obj([labels |-> Arr(<<Str(<<"a">>)>>)]),
     Obj([description |-> Str(<<"x">>)]),
     Obj([description |-> Null, summary |-> Str(<<"s">>)])}
FieldsFlags ==
    {NoFlag, Flag(FALSE, Null), Flag(TRUE, Null), Flag(TRUE, Arr(<<>>))}
        \cup {Flag(TRUE, f) : f \in AdditionalFields}
CreateOptions ==
    {[ProjectKey |-> <<"P">>, IssueType |-> <<"T", "a", "s", "k">>, Summary |-> <<"S">>,
      Description |-> d, AssigneeID |-> a, ParentKey |-> p, PriorityID |-> q, Fields |-> f] :
        d \in Descriptions, a \in Optional, p \in Optional, q \in Optional,
        f \in {Null} \cup AdditionalFields}
CreateFlags ==
    {[project |-> <<"P">>, type |-> <<"T", "a", "s", "k">>, summary |-> <<"S">>,
      description |-> d, assignee |-> a, parent |-> p, fields |-> f] :
        d \in Descriptions, a \in Optional, p \in Optional, f \in FieldsFlags}
EditFlags ==
    {[summary |-> s, description |-> d, assignee |-> a, fields |-> f] :
        s \in {<<>>, <<"S">>}, d \in Descriptions, a \in Optional, f \in FieldsFlags}

\* a process runs one operation
InitJira ==
    /\ jira = [op |-> "none"]
    /\ pc = "idle" /\ adf = Null /\ result = NoResult /\ html = <<>> /\ rendered = <<>>
    /\ Unused(threads) /\ Unused(account) /\ Unused(auth) /\ Unused(client)

\* a caller of the client creates an issue
CallCreateJiraIssue ==
    /\ jira.op = "none"
    /\ \E opts \in CreateOptions, rendering \in Renderings, response \in Responses :
        jira' = [op |-> "CreateJiraIssue", description |-> opts.Description,
                 extra |-> opts.Fields, rendering |-> rendering,
                 out |-> CreateJiraIssue(opts, rendering, response)]

\* atl jira create-issue
RunCreateIssue ==
    /\ jira.op = "none"
    /\ \E flags \in CreateFlags, loggedIn \in BOOLEAN, rendering \in Renderings,
       response \in Responses :
        jira' = [op |-> "create-issue", description |-> flags.description,
                 extra |-> flags.fields, rendering |-> rendering,
                 out |-> runJiraCreateIssue(flags, loggedIn, rendering, response)]

\* atl jira edit-issue
RunEditIssue ==
    /\ jira.op = "none"
    /\ \E flags \in EditFlags, loggedIn \in BOOLEAN, rendering \in Renderings,
       response \in Responses :
        jira' = [op |-> "edit-issue", description |-> flags.description,
                 extra |-> flags.fields, rendering |-> rendering,
                 out |-> runJiraEditIssue(flags, loggedIn, rendering, response)]

NextJira ==
    /\ CallCreateJiraIssue \/ RunCreateIssue \/ RunEditIssue
    /\ UNCHANGED <<pc, adf, result, html, rendered, threads, account, auth, client>>

SpecJira == InitJira /\ [][NextJira]_vars


---------------------------------------------------------------------------
(* The configuration: src/internal/config/config.go                         *)
(* A Config is [ActiveAccount, Accounts]; Accounts is Null (the nil map)    *)
(* or Obj of a function from names to accounts, an account being Null (a   *)
(* nil pointer) or Obj([Site, Email, Token]).                              *)

Account(site, email, token) == Obj([Site |-> site, Email |-> email, Token |-> token])
Config(active, accounts) == [ActiveAccount |-> active, Accounts |-> accounts]

\* make(map[string]*Account)
NoAccounts == Obj(<<>>)

\* c.Accounts[name]: ok
HasAccount(c, name) == c.Accounts # Null /\ name \in DOMAIN c.Accounts.v

\* fmt.Errorf("active account '%s' not found", name)
NotFound(name) == <<"active account '">> \o name \o <<"' not found">>
NoActiveAccount == <<"no active account set">>

\* what GetActiveAccount returns: (account, nil) or (nil, err)
Got(acct) == [account |-> acct, failed |-> FALSE, err |-> <<>>]
GotError(message) == [account |-> Null, failed |-> TRUE, err |-> message]

\* a version without the test of the empty name
GetActiveAccountUnchecked(c) ==
    IF ~HasAccount(c, c.ActiveAccount) THEN GotError(NotFound(c.ActiveAccount))
    ELSE Got(c.Accounts.v[c.ActiveAccount])

\* (c *Config) GetActiveAccount
GetActiveAccount(c) ==
    IF c.ActiveAccount = <<>> THEN GotError(NoActiveAccount)
    ELSE IF ~HasAccount(c, c.ActiveAccount) THEN GotError(NotFound(c.ActiveAccount))
    ELSE Got(c.Accounts.v[c.ActiveAccount])

\* (c *Config) SetAccount
SetAccount(c, name, acct) ==
    [c EXCEPT !.Accounts = Obj(Put((IF @ = Null THEN NoAccounts ELSE @).v, name, acct))]

\* the configurations GetActiveAccount is tried on
AccountNames == {<<>>, <<"w">>, <<"h">>}
SomeAccounts ==
    {Null, Account(<<"w", ".", "n">>, <<"e">>, <<"t">>), Account(<<"h">>, <<"f">>, <<"u">>)}
AccountMaps ==
    {Null} \cup {Obj(m) : m \in UNION {[names -> SomeAccounts] : names \in SUBSET AccountNames}}
Configs ==
    {Config(active, accounts) :
        active \in AccountNames \cup {<<"g">>}, accounts \in AccountMaps}

InitAccount ==
    /\ account \in {[c |-> c, before |-> c, called |-> FALSE, got |-> Got(Null)] :
                       c \in Configs}
    /\ pc = "idle" /\ adf = Null /\ result = NoResult /\ html = <<>> /\ rendered = <<>>
    /\ Unused(threads) /\ Unused(jira) /\ Unused(auth) /\ Unused(client)

\* account, err := cfg.GetActiveAccount()
CallGetActiveAccount ==
    /\ ~account.called
    /\ account' = [account EXCEPT !.called = TRUE, !.got = GetActiveAccount(account.c)]
    /\ UNCHANGED <<pc, adf, result, html, rendered, threads, jira, auth, client>>

NextAccount == CallGetActiveAccount

SpecAccount == InitAccount /\ [][NextAccount]_vars


---------------------------------------------------------------------------
(* NewClient: src/internal/atlassian/client.go                              *)

\* strings.HasPrefix
HasPrefix(s, prefix) ==
    Len(s) >= Len(prefix) /\ SubSeq(s, 1, Len(prefix)) = prefix

S_http == <<"h", "t", "t", "p">>
S_https == <<"h", "t", "t", "p", "s", ":", "/", "/">>

\* NewClient(email, token, site): the fields of the client
NewClient(email, token, site) ==
    [Email |-> email, Token |-> token,
     BaseURL |-> IF ~HasPrefix(site, S_http) THEN S_https \o site ELSE site]

\* the sites tried: a beginning and a host
SiteBeginnings ==
    {<<>>, <<"h", "t", "t", "p", ":", "/", "/">>, S_https, S_http,
     <<"h", "t", "t", "p", "b", "i", "n", ".">>, <<"H", "T", "T", "P", ":", "/", "/">>,
     <<"f", "t", "p", ":", "/", "/">>, <<"h", "t", "t">>}
Hosts == {<<>>, <<"x">>, <<"a", ".", "n", "e", "t">>}
Sites == {b \o h : b \in SiteBeginnings, h \in Hosts}

InitClient ==
    /\ client \in {[email |-> e, token |-> t, site |-> s, made |-> FALSE,
                    c |-> [Email |-> <<>>, Token |-> <<>>, BaseURL |-> <<>>]] :
                       e \in {<<>>, <<"e">>}, t \in {<<>>, <<"t">>}, s \in Sites}
    /\ pc = "idle" /\ adf = Null /\ result = NoResult /\ html = <<>> /\ rendered = <<>>
    /\ Unused(threads) /\ Unused(jira) /\ Unused(account) /\ Unused(auth)

\* client := atlassian.NewClient(email, token, site)
CallNewClient ==
    /\ ~client.made
    /\ client' = [client EXCEPT !.made = TRUE,
                                !.c = NewClient(client.email, client.token, client.site)]
    /\ UNCHANGED <<pc, adf, result, html, rendered, threads, jira, account, auth>>

NextClient == CallNewClient

SpecClient == InitClient /\ [][NextClient]_vars


---------------------------------------------------------------------------
(* auth login and auth logout: src/cmd/auth.go, with Load and Save of       *)
(* src/internal/config/config.go.  The config file is absent, holds the    *)
(* JSON text of a configuration, or holds a text cut short by a write that *)
(* failed.                                                                 *)

NoFile == [k |-> "absent"]
CutFile == [k |-> "cut"]
FileOf(json) == [k |-> "json", v |-> json]

\* json.MarshalIndent(c): the tags of Config and Account, omitempty included
MarshalAccount(a) ==
    IF a = Null THEN Null
    ELSE Obj([site |-> Str(a.v.Site), email |-> Str(a.v.Email), token |-> Str(a.v.Token)])
MarshalAccounts(m) == Obj([name \in DOMAIN m |-> MarshalAccount(m[name])])
Marshal(c) ==
    LET some == c.Accounts # Null /\ DOMAIN c.Accounts.v # {}
    IN  Obj(CASE c.ActiveAccount # <<>> /\ some ->
                    [active_account |-> Str(c.ActiveAccount),
                     accounts |-> MarshalAccounts(c.Accounts.v)]
              [] c.ActiveAccount # <<>> /\ ~some ->
                    [active_account |-> Str(c.ActiveAccount)]
              [] c.ActiveAccount = <<>> /\ some ->
                    [accounts |-> MarshalAccounts(c.Accounts.v)]
              [] OTHER -> <<>>)

\* json.Unmarshal(data, &cfg) of a text that Marshal wrote
UnmarshalAccount(j) ==
    IF j = Null THEN Null
    ELSE Account(AsString(Get(j.v, "site")), AsString(Get(j.v, "email")),
                 AsString(Get(j.v, "token")))
UnmarshalConfig(j) ==
    LET accounts == Get(j.v, "accounts")
    IN  Config(AsString(Get(j.v, "active_account")),
               IF accounts = Null THEN Null
               ELSE Obj([name \in DOMAIN accounts.v |-> UnmarshalAccount(accounts.v[name])]))

\* config.Load: (cfg, nil) or (nil, err); io tells whether the home
\* directory and the file can be read
Loaded(c) == [failed |-> FALSE, cfg |-> c]
LoadFailed == [failed |-> TRUE, cfg |-> Config(<<>>, Null)]
Load(file, io) ==
    IF ~io THEN LoadFailed
    ELSE IF file = NoFile THEN Loaded(Config(<<>>, NoAccounts))
    ELSE IF file = CutFile THEN LoadFailed
    ELSE LET c == UnmarshalConfig(file.v)
         IN  Loaded(IF c.Accounts = Null THEN [c EXCEPT !.Accounts = NoAccounts] ELSE c)

\* what os.WriteFile does: it writes the text; it cannot open the file; or it
\* fails after it has opened the file, which empties it
WriteOutcomes == {"written", "refused", "cut"}

\* (c *Config) Save: the error, and the file afterwards
Save(c, file, write) ==
    CASE write = "written" -> [failed |-> FALSE, file |-> FileOf(Marshal(c))]
      [] write = "refused" -> [failed |-> TRUE, file |-> file]
      [] OTHER -> [failed |-> TRUE, file |-> CutFile]

\* strings.Split(site, ".")[0]
RECURSIVE BeforeDot(_)
BeforeDot(s) ==
    IF s = <<>> \/ Head(s) = "." THEN <<>> ELSE <<Head(s)>> \o BeforeDot(Tail(s))

\* delete(cfg.Accounts, name)
Delete(m, name) == [x \in DOMAIN m \ {name} |-> m[x]]

\* how a command ended, and the file it leaves
Ended(failed, file) == [failed |-> failed, file |-> file]

\* runLogin: typed holds the three lines read, env what the server, the
\* reading of the configuration and the writing of the file do
runLogin(file, typed, env) ==
    LET site == TrimSpace(typed.site)
        email == TrimSpace(typed.email)
        token == TrimSpace(typed.token)
        loaded == Load(file, env.io)
        name == BeforeDot(site)
        cfg == [SetAccount(loaded.cfg, name, Account(site, email, token))
                   EXCEPT !.ActiveAccount = name]
        saved == Save(cfg, file, env.write)
    IN  IF site = <<>> \/ email = <<>> \/ token = <<>> THEN Ended(TRUE, file)
        ELSE IF ~env.user THEN Ended(TRUE, file)
        ELSE IF loaded.failed THEN Ended(TRUE, file)
        ELSE Ended(saved.failed, saved.file)

\* runLogout
runLogout(file, env) ==
    LET loaded == Load(file, env.io)
        cfg == loaded.cfg
        out == Config(<<>>, Obj(Delete(cfg.Accounts.v, cfg.ActiveAccount)))
        saved == Save(out, file, env.write)
    IN  IF loaded.failed THEN Ended(TRUE, file)
        ELSE IF cfg.ActiveAccount = <<>> THEN Ended(FALSE, file)
        ELSE Ended(saved.failed, saved.file)

\* what is typed at the prompts
TypedSites ==
    {<<>>, <<" ">>, <<"w", ".", "n">>, <<" ", "h", ".", "n", " ">>, <<"w", ".", "m">>,
     <<".", "n">>}
TypedEmails == {<<>>, <<"e">>}
TypedTokens == {<<>>, <<"t">>, <<"u", " ">>}
Typed ==
    {[site |-> s, email |-> e, token |-> t] :
        s \in TypedSites, e \in TypedEmails, t \in TypedTokens}

\* GetCurrentUser can succeed only where NewClient's URL names a host
Environments(site) ==
    {[user |-> u, io |-> i, write |-> w] :
        u \in (IF BeforeDot(TrimSpace(site)) = <<>> THEN {FALSE} ELSE BOOLEAN),
        i \in BOOLEAN, w \in WriteOutcomes}

NoTyped == [site |-> <<>>, email |-> <<>>, token |-> <<>>]

\* no config file, no command run
InitAuth ==
    /\ auth = [file |-> NoFile, cmd |-> "none", failed |-> FALSE, typed |-> NoTyped,
               before |-> NoFile]
    /\ pc = "idle" /\ adf = Null /\ result = NoResult /\ html = <<>> /\ rendered = <<>>
    /\ Unused(threads) /\ Unused(jira) /\ Unused(account) /\ Unused(client)

\* atl auth login
RunLogin ==
    /\ \E typed \in Typed : \E env \in Environments(typed.site) :
          LET end == runLogin(auth.file, typed, env)
          IN  auth' = [file |-> end.file, cmd |-> "login", failed |-> end.failed,
                       typed |-> typed, before |-> auth.file]
    /\ UNCHANGED <<pc, adf, result, html, rendered, threads, jira, account, client>>

\* atl auth logout
RunLogout ==
    /\ \E env \in Environments(<<"w">>) :
          LET end == runLogout(auth.file, env)
          IN  auth' = [file |-> end.file, cmd |-> "logout", failed |-> end.failed,
                       typed |-> NoTyped, before |-> auth.file]
    /\ UNCHANGED <<pc, adf, result, html, rendered, threads, jira, account, client>>

NextAuth == RunLogin \/ RunLogout

SpecAuth == InitAuth /\ [][NextAuth]_vars


---------------------------------------------------------------------------
(* What the claims speak of *)

Returned(s) == [panicked |-> FALSE, value |-> s]

\* the children of a node, and the k-th of them
ContentOf(x) == AsArray(Get(AsMap(x), "content"))
Child(x, k) == ContentOf(x)[k]
TextOf(x) == AsString(Get(AsMap(x), "text"))
MarksOf(x) == AsArray(Get(AsMap(x), "marks"))
TypeOf(x) == AsString(Get(AsMap(x), "type"))

\* the entries of an array that are objects, in order
RECURSIVE Objects(_)
Objects(a) ==
    IF a = <<>> THEN <<>>
    ELSE (IF IsMap(Head(a)) THEN <<Head(a)>> ELSE <<>>) \o Objects(Tail(a))

\* the texts of the text nodes below x, in document order
RECURSIVE TextsBelow(_)
RECURSIVE TextsBelowAll(_)
TextsBelow(x) ==
    IF ~IsMap(x) THEN <<>>
    ELSE IF TypeOf(x) = T_text THEN <<TextOf(x)>>
    ELSE TextsBelowAll(ContentOf(x))
TextsBelowAll(a) == IF a = <<>> THEN <<>> ELSE TextsBelow(Head(a)) \o TextsBelowAll(Tail(a))

\* the first place where sub occurs in s (0: nowhere)
FirstIndex(s, sub) ==
    IF Contains(s, sub)
    THEN 1 + CHOOSE i \in 0..(Len(s) - Len(sub)) :
                /\ SubSeq(s, i + 1, i + Len(sub)) = sub
                /\ \A j \in 0..(i - 1) : SubSeq(s, j + 1, j + Len(sub)) # sub
    ELSE 0

\* the strings of ts occur in s one after the other, without overlap
RECURSIVE InOrder(_, _)
InOrder(s, ts) ==
    IF ts = <<>> THEN TRUE
    ELSE LET i == FirstIndex(s, Head(ts))
         IN  /\ i > 0
             /\ InOrder(SubSeq(s, i + Len(Head(ts)), Len(s)), Tail(ts))

\* the lines of s
RECURSIVE Lines(_)
Lines(s) ==
    LET i == FirstIndex(s, <<"\n">>)
    IN  IF i = 0 THEN <<s>>
        ELSE <<SubSeq(s, 1, i - 1)>> \o Lines(SubSeq(s, i + 1, Len(s)))

Count(s, c) == Cardinality({i \in 1..Len(s) : s[i] = c})

RangeOf(a) == {a[i] : i \in 1..Len(a)}

Bullet == <<"U+2022">>

---------------------------------------------------------------------------
(* C1: ADFToText never panics and always returns a string, whatever JSON    *)
(* value it is given, also a heading without an attrs object or with a     *)
(* level that is negative or larger than 6.                                *)
C1_NeverPanics == pc = "done" => ~result.panicked

(* C2: ADFToText returns the empty string for nil and for every value that *)
(* is not a JSON object.                                                   *)
C2_NonObjectIsEmpty == (pc = "done" /\ ~IsMap(adf)) => result = Returned(<<>>)

C2_Witness == pc = "done" /\ adf.k = "str" /\ adf.v # <<>> /\ result.value = <<>>

(* C3: a doc holding one heading of level L in 1..6 with one text child T   *)
(* renders as L times "#", one space and T (T as the final TrimSpace       *)
(* leaves it: whole when T is plain text), so the output contains them.    *)
C3_HeadingLevels ==
    pc = "done" =>
        \A L \in 1..6 : \A t \in Texts :
            adf = Doc(<<NodeWithAttrs(T_heading, Level(2 * L), <<TextNode(t)>>)>>) =>
                /\ result = Returned(TrimSpace(Repeat(<<"#">>, L) \o <<" ">> \o t))
                /\ Count(result.value, "#") = L
                /\ IsPlainText(t) =>
                      Contains(result.value, Repeat(<<"#">>, L) \o <<" ">> \o t)

C3_Witness ==
    /\ pc = "done"
    /\ adf = Doc(<<NodeWithAttrs(T_heading, Level(12), <<TextNode(<<"a", " ", "b">>)>>)>>)
    /\ result.value = <<"#", "#", "#", "#", "#", "#", " ", "a", " ", "b">>

(* C4: a heading whose attrs.level is missing or not a number renders as    *)
(* level 1 (one "#", a space, the text); a numeric level outside 1..6      *)
(* renders with 1..6 "#" or as a plain paragraph without "#".              *)
C4_HeadingDegrades ==
    pc = "done" =>
        \A t \in PlainTexts : \A h \in HeadingNodes(t) :
            adf = Doc(<<h>>) =>
                LET level == Get(AsMap(Get(h.v, "attrs")), "level")
                IN  IF level.k # "num"
                    THEN result = Returned(<<"#", " ">> \o t)
                    ELSE (level.v < 2 \/ level.v > 12) =>
                            /\ ~result.panicked
                            /\ \/ result.value = t
                               \/ \E n \in 1..6 :
                                    result.value = Repeat(<<"#">>, n) \o <<" ">> \o t

\* the delimiter the claim gives a mark
DelimiterOf(mark) ==
    LET markType == TypeOf(mark)
    IN  CASE markType = T_strong -> <<"*", "*">>
          [] markType = T_em -> <<"*">>
          [] markType = T_code -> <<"U+0060">>
          [] markType = T_strike -> <<"~", "~">>
          [] OTHER -> <<>>

\* t wrapped once per mark, the first mark innermost
RECURSIVE Wrapped(_, _)
Wrapped(t, marks) ==
    IF marks = <<>> THEN t
    ELSE LET outer == DelimiterOf(marks[Len(marks)])
         IN  outer \o Wrapped(t, SubSeq(marks, 1, Len(marks) - 1)) \o outer

(* C5: a text node with marks m1..mk is emitted wrapped once per mark, the  *)
(* first mark innermost: strong as **x**, em as *x*, code in backticks,    *)
(* strike as ~~x~~; any other mark leaves the text as it is.               *)
C5_MarksWrapInOrder ==
    (pc = "done" /\ adf \in MarkDocs) =>
        LET node == Child(Child(adf, 1), 1)
        IN  /\ result = Returned(TrimSpace(Wrapped(TextOf(node), MarksOf(node))))
            /\ IsPlainText(TextOf(node)) =>
                  result.value = Wrapped(TextOf(node), MarksOf(node))

C5_Witness ==
    /\ pc = "done"
    /\ adf = Doc(<<Para(<<MarkedText(<<"T">>, <<Mark(T_em), Mark(T_code)>>)>>)>>)
    /\ result.value = <<"U+0060", "*", "T", "*", "U+0060">>

(* C6: every listItem of a bulletList is rendered with the marker U+2022    *)
(* and one space before it, so an item holding a paragraph with text T     *)
(* yields the bullet, a space and T; a blank line follows the list.        *)
C6_BulletMarker ==
    (pc = "done" /\ adf \in ListDocs /\ TypeOf(Child(adf, 1)) = T_bulletList) =>
        \A item \in {x \in RangeOf(ContentOf(Child(adf, 1))) : TypeOf(x) = T_listItem} :
            Contains(result.value, Bullet \o <<" ">> \o TextsBelow(item)[1])

\* an ordered list whose entries hold no list of their own
FlatEntry(x) == ~IsMap(x) \/ Len(TextsBelow(x)) = 1

(* C7: the k-th rendered item of an orderedList carries the marker "k. ":   *)
(* the markers of a list of n rendered items are 1., 2., ..., n., whatever *)
(* else the content array holds.                                           *)
C7_OrderedMarkers ==
    (/\ pc = "done"
     /\ adf \in ListDocs
     /\ TypeOf(Child(adf, 1)) = T_orderedList
     /\ \A x \in RangeOf(ContentOf(Child(adf, 1))) : FlatEntry(x)
     /\ Objects(ContentOf(Child(adf, 1))) # <<>>) =>
        LET items == Objects(ContentOf(Child(adf, 1)))
            lines == Lines(result.value)
        IN  /\ Len(lines) = Len(items)
            /\ \A k \in 1..Len(items) :
                  lines[k] = Itoa(k) \o <<".", " ">> \o TextsBelow(items[k])[1]

\* what a row writes, rendered alone
RowText(row) == processNode(row.v, NewBuilder, 0).buf
RowTexts(rows) == [k \in 1..Len(rows) |-> RowText(rows[k])]

(* C8 as stated: every rendered tableRow contributes at least one "|" to    *)
(* the output, and the text of every cell appears in row and cell order.   *)
C8_EveryRowHasBar ==
    (pc = "done" /\ adf \in TableDocs) =>
        LET rows == Objects(ContentOf(Child(adf, 1)))
        IN  /\ result = Returned(TrimSpace(Flatten(RowTexts(rows))))
            /\ \A k \in 1..Len(rows) : Contains(RowText(rows[k]), <<"|">>)
            /\ InOrder(result.value, TextsBelow(adf))

(* C8 as amended: every rendered tableRow that holds at least one cell      *)
(* contributes a "|" per cell (a row without cells contributes a line      *)
(* break only), and the text of every cell appears in row and cell order.  *)
C8_RowWithCellsHasBar ==
    (pc = "done" /\ adf \in TableDocs) =>
        LET rows == Objects(ContentOf(Child(adf, 1)))
        IN  /\ result = Returned(TrimSpace(Flatten(RowTexts(rows))))
            /\ \A k \in 1..Len(rows) :
                  /\ Count(RowText(rows[k]), "|") = Len(Objects(ContentOf(rows[k])))
                  /\ ContentOf(rows[k]) = <<>> => RowText(rows[k]) = <<"\n">>
            /\ Count(result.value, "|") = Len(TextsBelow(adf))
            /\ InOrder(result.value, TextsBelow(adf))

C8_Witness ==
    /\ pc = "done"
    /\ adf \in TableDocs
    /\ Len(Objects(ContentOf(Child(adf, 1)))) = 2
    /\ Len(TextsBelow(adf)) = 3
    /\ Count(result.value, "|") = 3

(* C9: a node of an unknown kind does not make ADFToText fail: its tag is   *)
(* ignored, its children are rendered as if they stood in its place, their *)
(* text appears in the output, and the nodes after it are rendered too.    *)
C9_UnknownNodeIsTransparent ==
    pc = "done" =>
        /\ \A tag \in UnknownTags : \A c \in UnknownChildren :
             \A b \in Before : \A a \in After :
                adf = Doc(b \o <<UnknownNode(tag, c)>> \o a) =>
                    /\ ~result.panicked
                    /\ result = ADFToText(Doc(b \o c \o a))
                    /\ InOrder(result.value, TextsBelowAll(b \o c \o a))
        /\ \A tag \in UnknownTags :
             adf = Doc(<<Para(<<TextNode(<<"b">>), UnknownNode(tag, <<TextNode(<<"T">>)>>)>>)>>)
                => result = Returned(<<"b", "T">>)

C9_Witness ==
    /\ pc = "done"
    /\ adf = Doc(<<Node(T_futureNode, <<Para(<<TextNode(<<"a", " ", "b">>)>>)>>),
                   Para(<<TextNode(<<"b">>)>>)>>)
    /\ result.value = <<"a", " ", "b", "\n", "b">>

\* s holds a run of white space with three line breaks or more
HasBlankRun(s) ==
    \E i \in 1..Len(s) : \E j \in i..Len(s) :
        /\ \A k \in i..j : s[k] \in WhiteSpace
        /\ Cardinality({k \in i..j : s[k] = "\n"}) >= 3

\* the inputs C10 says HTMLToText returns as they are
LeftAlone(s) ==
    /\ \A i \in 1..Len(s) : s[i] \notin {"<", "&", "\t"}
    /\ \A i \in 1..(Len(s) - 1) : ~(s[i] = " " /\ s[i + 1] = " ")
    /\ ~HasBlankRun(s)
    /\ s # <<>> => (s[1] \notin WhiteSpace /\ s[Len(s)] \notin WhiteSpace)

(* C10: HTMLToText("") is "", and HTMLToText returns its input unchanged    *)
(* when the input holds no "<", no "&", no tab, no two adjacent spaces, no *)
(* run of white space with three line breaks or more, and no white space   *)
(* at either end.                                                          *)
C10_PlainTextUnchanged ==
    pc = "done" =>
        /\ html = <<>> => rendered = <<>>
        /\ LeftAlone(html) => rendered = html

C10_Witness ==
    /\ pc = "done"
    /\ html = <<"a", "\n", " ", "\n", ">">>
    /\ LeftAlone(html)
    /\ rendered = html

---------------------------------------------------------------------------
(* C11: for every heading <hL ...>T</hL> of the input, L in 1..6, with or   *)
(* without attributes, the output of HTMLToText contains L "#", a space    *)
(* and T, also when T holds a line break.                                  *)
HeadingMarker(L, inner) == Repeat(<<"#">>, L) \o <<" ">> \o inner

C11_HeadingMarkers ==
    pc = "done" =>
        /\ \A L \in HeadingLevels : \A at \in AttrStrings : \A c \in HeadingContents :
               html = HeadingHTML(L, at, c) => Contains(rendered, HeadingMarker(L, c))
        /\ \A L \in HeadingLevels : \A M \in HeadingLevels :
               html = HeadingPairHTML(L, M) =>
                   /\ Contains(rendered, HeadingMarker(L, <<"T">>))
                   /\ Contains(rendered, HeadingMarker(M, <<"U">>))

---------------------------------------------------------------------------
(* C12: for every code text X the output of HTMLToText for                  *)
(* <pre><code>X</code></pre>, and for <pre>X</pre>, contains X between two  *)
(* fence lines: the fence, a line break, X, a line break, the fence.       *)
Fence == <<"U+0060", "U+0060", "U+0060">>
Fenced(X) == Fence \o <<"\n">> \o X \o <<"\n">> \o Fence

C12_CodeBlockFenced ==
    pc = "done" =>
        \A X \in CodeTexts :
            html \in {PreCodeHTML(X), PreHTML(X)} => Contains(rendered, Fenced(X))

---------------------------------------------------------------------------
(* C13: HTMLToText renders every <li> item of a <ul> and of an <ol> on a    *)
(* line of its own that is the bullet U+2022, a space and the item text;   *)
(* no number is produced for the items of an <ol>.                         *)
ItemLine(marker, item) == marker \o <<" ">> \o item

C13_ItemsBulleted ==
    pc = "done" =>
        \A name \in ListNames : \A items \in ItemSeqs :
            html = ListHTML(name, items) =>
                Lines(rendered) = [i \in 1..Len(items) |-> ItemLine(Bullet, items[i])]

---------------------------------------------------------------------------
(* C14: for every input with an <img> tag whose alt is A the output of      *)
(* HTMLToText contains "[Image: A]", and for an <img> tag with no alt and  *)
(* src S it contains "[Image: S]", whatever markup (an <i> or an <em>      *)
(* element, plain text) stands before or after the image.                  *)
ImageText(t) == <<"[", "I", "m", "a", "g", "e", ":", " ">> \o t \o <<"]">>

C14_ImageShown ==
    pc = "done" =>
        \A b \in AroundImage : \A a \in AroundImage :
            /\ \A img \in ImgWithAlt :
                   html = ImageHTML(b, img, a) => Contains(rendered, ImageText(AltText))
            /\ \A img \in ImgWithSrc :
                   html = ImageHTML(b, img, a) => Contains(rendered, ImageText(SrcText))

---------------------------------------------------------------------------
(* C15: for every <blockquote>Q</blockquote> of the input the output of     *)
(* HTMLToText holds the marker ">" and a space right before the rendering  *)
(* of Q, whatever inline markup (<b>, <strong>) Q holds.                   *)
QuoteMarker == <<">", " ">>

C15_QuoteMarked ==
    pc = "done" =>
        \A b \in BeforeQuote : \A at \in AttrStrings : \A q \in QuoteContents :
            html = QuoteHTML(b, at, q) => Contains(rendered, QuoteMarker \o q.out)

---------------------------------------------------------------------------
(* C16: HTMLToText deletes every tag whose name is not one of the supported *)
(* ones (<custom-tag>, <another>, <thead>, <link>) and puts nothing in its *)
(* place: the output is the output for the input without those tags, and  *)
(* it holds neither "<" nor ">".                                           *)
NoAngle(s) == \A i \in 1..Len(s) : s[i] \notin {"<", ">"}

C16_UnknownTagsDeleted ==
    pc = "done" =>
        /\ \A b \in BeforeUnknown : \A n \in UnknownNames : \A t \in InsideUnknown :
               html = UnknownHTML(b, n, t) =>
                   rendered = HTMLToText(b \o t) /\ NoAngle(rendered)
        /\ \A n \in UnknownNames : \A o \in UnknownNames :
               html = UnknownPairHTML(n, o) =>
                   rendered = HTMLToText(<<"a", "b">>) /\ NoAngle(rendered)

---------------------------------------------------------------------------
(* C17: attributes other than the href of <a> and the alt and src of <img>  *)
(* never reach the output of HTMLToText: for every supported tag, the      *)
(* output for the tag written with attributes is the output for the tag    *)
(* written without them, and it holds no attribute name or value.          *)
NoAttributeText(s) ==
    /\ ~Contains(s, <<"c", "l", "a", "s", "s">>)
    /\ \A i \in 1..Len(s) : s[i] \notin {"x", "=", "\""}

C17_AttributesIgnored ==
    pc = "done" =>
        \A n \in SupportedNames : \A k \in KeptAttrs(n) :
            html = TaggedHTML(n, ClassAttr \o k) =>
                /\ rendered = HTMLToText(TaggedHTML(n, k))
                /\ NoAttributeText(rendered)

---------------------------------------------------------------------------
(* C18: HTMLToText decodes each of the six entities once, from left to      *)
(* right, and does not decode a decoded character again: for plain x and y *)
(* the output for x, the entity, y is x, the decoded character, y; and an  *)
(* entity whose "&" is written &amp; comes out as the entity's text, so    *)
(* that &amp;lt; yields &lt;.                                              *)
C18_EntitiesDecodedOnce ==
    pc = "done" =>
        \A x \in AroundEntity : \A e \in Entities :
            /\ \A y \in AroundEntity :
                   /\ html = EntityHTML(x, e, y) => rendered = x \o e.out \o y
                   /\ html = EscapedEntityHTML(x, e, y) => rendered = x \o e.src \o y
            /\ \A f \in Entities \ {Nbsp} :
                   html = EntityHTML(x, e, f.src) => Contains(rendered, x \o e.out \o f.out)

---------------------------------------------------------------------------
(* C19: whatever the input, the output of HTMLToText holds no three         *)
(* line breaks in a row.                                                   *)
ThreeBreaks == <<"\n", "\n", "\n">>

C19_NoThreeBreaks ==
    pc = "done" => ~Contains(rendered, ThreeBreaks)

\* three breaks made by <p>, <br> and a written line break collapse to two
C19_Witness ==
    /\ pc = "done"
    /\ html = BreaksHTML(<<TagOpen(N_p, NoAttrs), TagOpen(N_br, NoAttrs), <<"\n">>>>)
    /\ rendered = <<"a", "\n", "\n", "b">>

---------------------------------------------------------------------------
---------------------------------------------------------------------------
(* C23: when CreateJiraIssue is given a description that is not empty and   *)
(* MarkdownToADF converts it, the body of the POST request sent has        *)
(* fields.description equal to the document MarkdownToADF returned,        *)
(* whatever the other options are, additional Fields included.             *)
Ran(op) == ~Unused(jira) /\ jira.op = op
C23_DescriptionIsConverted ==
    (/\ Ran("CreateJiraIssue")
     /\ jira.description # <<>>
     /\ ~MarkdownToADF(jira.rendering).failed) =>
        /\ Len(jira.out.requests) = 1
        /\ jira.out.requests[1].method = "POST"
        /\ Get(jira.out.requests[1].body.v.fields.v, "description")
              = MarkdownToADF(jira.rendering).adf

---------------------------------------------------------------------------
(* C24: GetActiveAccount fails with "no active account set" exactly when    *)
(* ActiveAccount is empty, with "active account '<name>' not found"        *)
(* exactly when ActiveAccount is not empty and is no key of Accounts, and  *)
(* returns Accounts[ActiveAccount] without an error otherwise; it leaves   *)
(* the configuration as it was.                                            *)
C24_ActiveAccountOrError ==
    (~Unused(account) /\ account.called) =>
        LET c == account.before
            got == account.got
            isKey == c.Accounts # Null /\ c.ActiveAccount \in DOMAIN c.Accounts.v
        IN  /\ account.c = c
            /\ (got.failed /\ got.err = <<"no active account set">>)
                   <=> c.ActiveAccount = <<>>
            /\ (got.failed /\ got.err = <<"active account '">> \o c.ActiveAccount
                                           \o <<"' not found">>)
                   <=> (c.ActiveAccount # <<>> /\ ~isKey)
            /\ (c.ActiveAccount # <<>> /\ isKey) =>
                   (~got.failed /\ got.account = c.Accounts.v[c.ActiveAccount])
            /\ got.failed => got.account = Null

\* the three cases: a name that is a key, and the account that is returned
C24_Witness ==
    /\ ~Unused(account) /\ account.called
    /\ account.c.ActiveAccount = <<"w">>
    /\ ~account.got.failed
    /\ account.got.account = Account(<<"w", ".", "n">>, <<"e">>, <<"t">>)
    /\ <<>> \in DOMAIN account.c.Accounts.v

---------------------------------------------------------------------------
(* C25: NewClient keeps a site that begins with http:// or https:// as the  *)
(* base URL and puts https:// before any other site, so that the base URL  *)
(* always begins with http:// or https://; Email and Token are stored as   *)
(* given.                                                                  *)
HasScheme(url) ==
    \/ HasPrefix(url, <<"h", "t", "t", "p", ":", "/", "/">>)
    \/ HasPrefix(url, <<"h", "t", "t", "p", "s", ":", "/", "/">>)
C25_BaseURLHasScheme ==
    (~Unused(client) /\ client.made) =>
        /\ client.c.Email = client.email
        /\ client.c.Token = client.token
        /\ HasScheme(client.site) => client.c.BaseURL = client.site
        /\ ~HasScheme(client.site) =>
               client.c.BaseURL = <<"h", "t", "t", "p", "s", ":", "/", "/">> \o client.site
        /\ HasScheme(client.c.BaseURL)

---------------------------------------------------------------------------
(* C26: the passes of HTMLToText run in the order of the source, and a      *)
(* marker that an earlier pass has written (the '#'s of a heading, the     *)
(* bullet, "> ", "| ", "**", "*", the backtick, "[Image: ") and that is in *)
(* the text when the tags are stripped is still in the text afterwards;    *)
(* the entities are decoded after the tags are stripped, so the input      *)
(* &lt;b&gt; comes out as the text <b>.                                     *)
Star == <<"*">>
MarkerPasses ==
    {[pass |-> L, marker |-> Repeat(<<"#">>, L) \o <<" ">>] : L \in 1..6}
    \cup {[pass |-> 10, marker |-> <<"U+00E2", "U+20AC", "U+00A2", " ">>],
          [pass |-> 18, marker |-> <<"U+0060">>],
          [pass |-> 19, marker |-> Star \o Star], [pass |-> 20, marker |-> Star \o Star],
          [pass |-> 21, marker |-> Star], [pass |-> 22, marker |-> Star],
          [pass |-> 24, marker |-> <<"[", "I", "m", "a", "g", "e", ":", " ">>],
          [pass |-> 25, marker |-> <<"[", "I", "m", "a", "g", "e", ":", " ">>],
          [pass |-> 30, marker |-> <<"|", " ">>], [pass |-> 32, marker |-> <<"|", " ">>],
          [pass |-> 38, marker |-> <<">", " ">>]}
C26_MarkersSurviveStripping ==
    pc = "done" =>
        LET before == TextAfter(html, TagStripping - 1)
            after == TextAfter(html, TagStripping)
        IN  /\ rendered = TrimSpace(TextAfter(html, Len(HTMLPasses)))
            /\ \A mp \in MarkerPasses :
                   (/\ Contains(before, mp.marker)
                    /\ ~Contains(after, mp.marker))
                       => TextAfter(html, mp.pass) = TextAfter(html, mp.pass - 1)
            /\ (Contains(html, EscapedTag) /\ Count(html, "<") = 0)
                   => Contains(rendered, <<"<", "b", ">">>)

---------------------------------------------------------------------------
(* C27: the output of HTMLToText holds no tab and no two spaces next to     *)
(* each other (a decoded &nbsp; being a space), and neither begins nor     *)
(* ends with a white-space character.                                      *)
C27_WhitespaceNormalized ==
    pc = "done" =>
        /\ Count(rendered, "\t") = 0
        /\ ~Contains(rendered, <<" ", " ">>)
        /\ rendered # <<>> =>
               (rendered[1] \notin WhiteSpace /\ rendered[Len(rendered)] \notin WhiteSpace)

\* an input with a tab next to an &nbsp; between two texts
C27_Witness ==
    /\ pc = "done"
    /\ html = <<"a", "\t", "&", "n", "b", "s", "p", ";", "a">>
    /\ rendered = <<"a", " ", "a">>

---------------------------------------------------------------------------
(* C28: in the output of ADFToText every list-item marker (the bullet or    *)
(* "k.", and a space) is the first text of its line after spaces only, and *)
(* an item whose first child is a paragraph has the paragraph's text on    *)
(* the line of its marker; so for a list placed in a listItem after a      *)
(* paragraph, whose items come on lines of their own, two spaces deeper.   *)
StartsAt(line, i, sub) ==
    i + Len(sub) - 1 <= Len(line) /\ SubSeq(line, i, i + Len(sub) - 1) = sub
MarkerAt(line, i) ==
    \/ StartsAt(line, i, bulletMarker \o <<" ">>)
    \/ StartsAt(line, i, Bullet \o <<" ">>)
    \/ \E k \in 1..MaxItems : StartsAt(line, i, Itoa(k) \o <<".", " ">>)
MarkerLeadsLine(line) ==
    \A i \in 1..Len(line) :
        MarkerAt(line, i) => \A j \in 1..(i - 1) : line[j] = " "
\* the lists placed in an item of the list, after a paragraph
ListsInItems(list) ==
    {Child(item, 2) : item \in {x \in RangeOf(ContentOf(list)) :
                                    TypeOf(x) = T_listItem /\ Len(ContentOf(x)) = 2}}
C28_MarkersLeadTheirLines ==
    (pc = "done" /\ adf \in ListDocs) =>
        LET lines == Lines(result.value)
            list == Child(adf, 1)
        IN  /\ \A n \in 1..Len(lines) : MarkerLeadsLine(lines[n])
            /\ \A item \in {x \in RangeOf(ContentOf(list)) : TypeOf(x) = T_listItem} :
                   \E n \in 1..Len(lines) :
                       /\ \E i \in 1..Len(lines[n]) : MarkerAt(lines[n], i)
                       /\ Contains(lines[n], <<" ">> \o TextsBelow(item)[1])
            /\ \A inner \in ListsInItems(list) :
                   \E n \in 1..Len(lines) :
                       /\ StartsAt(lines[n], 1, <<" ", " ">>)
                       /\ MarkerAt(lines[n], 3)
                       /\ Contains(lines[n], <<" ">> \o TextsBelow(inner)[1])

---------------------------------------------------------------------------
(* C29: in CreateJiraIssue and in the create-issue and edit-issue commands  *)
(* the description is converted before the server is contacted: when       *)
(* MarkdownToADF returns an error the operation returns an error, sends no *)
(* request and returns no result; when the description is empty the        *)
(* converter is not called, and the request carries a description field    *)
(* only if the additional fields supply one, with the value they give.     *)
Operated == ~Unused(jira) /\ jira.op # "none"
Converted == Contains(jira.out.log, <<"MarkdownToADF">>)
FieldsOf(request) == AsMap(request.body.v.fields)
\* the additional fields given: opts.Fields, or the object of --fields
Supplied ==
    IF jira.op = "CreateJiraIssue" THEN AsMap(jira.extra)
    ELSE IF jira.extra.given /\ jira.extra.valid THEN AsMap(jira.extra.doc)
    ELSE <<>>
ConvertedBeforeContact ==
    /\ jira.out.log \in {<<>>, <<"MarkdownToADF">>, <<"doRequest">>,
                         <<"MarkdownToADF", "doRequest">>}
    /\ Len(jira.out.requests) = (IF Contains(jira.out.log, <<"doRequest">>) THEN 1 ELSE 0)
    /\ (Converted /\ MarkdownToADF(jira.rendering).failed) =>
           /\ jira.out.failed /\ ~jira.out.panicked
           /\ jira.out.requests = <<>>
           /\ jira.out.result = Null
    /\ jira.description = <<>> => ~Converted
    /\ (jira.description # <<>> /\ jira.out.requests # <<>>) => Converted

\* the claim as it is worded: no description field at all
C29_NoDescriptionSent ==
    Operated =>
        /\ ConvertedBeforeContact
        /\ jira.description = <<>> =>
               \A n \in 1..Len(jira.out.requests) :
                   "description" \notin DOMAIN FieldsOf(jira.out.requests[n])

C29_ConvertedBeforeContact ==
    Operated =>
        /\ ConvertedBeforeContact
        /\ jira.description = <<>> =>
               \A n \in 1..Len(jira.out.requests) :
                   "description" \in DOMAIN FieldsOf(jira.out.requests[n]) =>
                       /\ "description" \in DOMAIN Supplied
                       /\ FieldsOf(jira.out.requests[n]).description = Supplied.description

\* edit-issue with a description the converter fails on
C29_Witness ==
    /\ Operated /\ jira.op = "edit-issue"
    /\ jira.description = <<"#", " ", "T">>
    /\ jira.rendering = RenderFailed
    /\ jira.out = Failure(<<"MarkdownToADF">>, <<>>)

---------------------------------------------------------------------------
(* C30: from no config file, after any logins and logouts, failed ones      *)
(* included, the saved configuration has an ActiveAccount that is empty or *)
(* a key of Accounts; after a login that succeeded the account is the      *)
(* active one and GetActiveAccount returns its site, email and token;      *)
(* after a logout that succeeded ActiveAccount is empty, the account that  *)
(* was active is gone and the others are as they were; a login or logout   *)
(* that failed leaves the saved configuration as it was.                   *)
SavedConfig(file) == Load(file, TRUE)
Keys(c) == DOMAIN c.Accounts.v
C30_SavedConfigConsistent ==
    ~Unused(auth) =>
        LET now == SavedConfig(auth.file)
            was == SavedConfig(auth.before)
        IN  /\ ~now.failed
            /\ now.cfg.ActiveAccount = <<>> \/ now.cfg.ActiveAccount \in Keys(now.cfg)
            /\ (auth.cmd = "login" /\ ~auth.failed) =>
                   /\ now.cfg.ActiveAccount = BeforeDot(TrimSpace(auth.typed.site))
                   /\ GetActiveAccount(now.cfg)
                         = Got(Account(TrimSpace(auth.typed.site), TrimSpace(auth.typed.email),
                                       TrimSpace(auth.typed.token)))
            /\ (auth.cmd = "logout" /\ ~auth.failed) =>
                   /\ now.cfg.ActiveAccount = <<>>
                   /\ was.cfg.ActiveAccount \notin Keys(now.cfg)
                   /\ \A name \in Keys(was.cfg) \ {was.cfg.ActiveAccount} :
                          /\ name \in Keys(now.cfg)
                          /\ now.cfg.Accounts.v[name] = was.cfg.Accounts.v[name]
                   /\ Keys(now.cfg) \subseteq Keys(was.cfg)
            /\ auth.failed => auth.file = auth.before

============================================================================
